---------------------------- MODULE Spec2Model ----------------------------
(***************************************************************************)
(* A model of the interactive calibration / polygon engine of              *)
(* src/src/components/MapCalculator.jsx (the MapCalculator component).     *)
(*                                                                         *)
(* React state cells and refs are the variables.  One action stands for    *)
(* one event handler together with the render it causes and the effects    *)
(* that run after that render (the results recomputation of lines 280-285),*)
(* so every state TLC sees is a settled state of the component.            *)
(*                                                                         *)
(* Numbers.  A JavaScript number is modelled exactly as a triple           *)
(* <<n, d, r>> standing for (n/d)*sqrt(r), with d > 0, gcd(n,d) = 1 and r  *)
(* square-free (r = 1 for a rational).  <<0,0,0>> is NaN.  Coordinates are *)
(* rationals; lengths (Math.sqrt, Math.hypot) may be surds.  Floating      *)
(* point rounding is not modelled.  null is the empty tuple.               *)
(***************************************************************************)
EXTENDS Integers, Sequences, FiniteSets, TLC

NULL == <<>>

----------------------------------------------------------------------------
(* Exact arithmetic on (n/d)*sqrt(r).                                      *)

NaN == <<0, 0, 0>>
Zero == <<0, 1, 1>>

FromInt(k) == <<k, 1, 1>>

IsNaN(a) == a[2] = 0

AbsI(k) == IF k < 0 THEN -k ELSE k

RECURSIVE GCD(_, _)
GCD(a, b) == IF b = 0 THEN a ELSE GCD(b, a % b)

RECURSIVE RootBetween(_, _, _)
\* the largest k in lo..hi with k*k <= q, by bisection
RootBetween(q, lo, hi) ==
    IF lo >= hi THEN lo
    ELSE LET mid == (lo + hi + 1) \div 2
         IN  IF mid * mid <= q THEN RootBetween(q, mid, hi)
             ELSE RootBetween(q, lo, mid - 1)

\* floor of the square root of a natural number below 2^31 (46340 is the
\* largest root there)
ISqrt(q) == RootBetween(q, 0, IF q < 46340 THEN q ELSE 46340)

\* the largest k with k*k dividing q (q >= 1)
SquarePart(q) ==
    LET ks == {k \in 1..ISqrt(q) : q % (k * k) = 0}
    IN  CHOOSE k \in ks : \A j \in ks : j <= k

\* (n/d)*sqrt(r) in normal form, for d # 0 and r >= 1
Norm(n, d, r) ==
    IF n = 0 THEN Zero
    ELSE LET k == SquarePart(r)
             m == IF d < 0 THEN -(n * k) ELSE n * k
             e == AbsI(d)
             g == GCD(AbsI(m), e)
         IN  <<m \div g, e \div g, r \div (k * k)>>

Rat(n, d) == Norm(n, d, 1)

Neg(a) == IF IsNaN(a) THEN NaN ELSE <<-a[1], a[2], a[3]>>

Mul(a, b) ==
    IF IsNaN(a) \/ IsNaN(b) THEN NaN
    ELSE Norm(a[1] * b[1], a[2] * b[2], a[3] * b[3])

\* a / b; x / 0 is not finite
Div(a, b) ==
    IF IsNaN(a) \/ IsNaN(b) \/ b[1] = 0 THEN NaN
    ELSE Norm(a[1] * b[2], a[2] * b[1] * b[3], a[3] * b[3])

\* a + b for two numbers over the same radical (always so for rationals)
Add(a, b) ==
    IF IsNaN(a) \/ IsNaN(b) THEN NaN
    ELSE IF a[1] = 0 THEN b
    ELSE IF b[1] = 0 THEN a
    ELSE LET r == CHOOSE s \in {a[3]} : s = b[3]
         IN  Norm(a[1] * b[2] + b[1] * a[2], a[2] * b[2], r)

Sub(a, b) == Add(a, Neg(b))

\* Math.sqrt of a rational
Sqrt(a) ==
    IF IsNaN(a) \/ a[1] < 0 THEN NaN
    ELSE IF a[1] = 0 THEN Zero
    ELSE LET r == CHOOSE s \in {a[3]} : s = 1
         IN  Norm(1, a[2], a[1] * a[2] * r)

\* a < b for non-negative a and b, by their squares
LtNonNeg(a, b) ==
    IF a[3] = b[3]
    THEN a[1] * b[2] < b[1] * a[2]
    ELSE a[1] * a[1] * a[3] * b[2] * b[2] < b[1] * b[1] * b[3] * a[2] * a[2]

Lt(a, b) ==
    /\ ~IsNaN(a)
    /\ ~IsNaN(b)
    /\ IF a[1] < 0
       THEN b[1] >= 0 \/ LtNonNeg(Neg(b), Neg(a))
       ELSE b[1] >= 0 /\ LtNonNeg(a, b)

Le(a, b) == ~IsNaN(a) /\ ~IsNaN(b) /\ ~Lt(b, a)

\* Math.abs
Abs(a) == IF IsNaN(a) THEN NaN ELSE <<AbsI(a[1]), a[2], a[3]>>

\* Math.hypot(dx, dy) and Math.sqrt(Math.pow(dx, 2) + Math.pow(dy, 2))
Hypot(dx, dy) == Sqrt(Add(Mul(dx, dx), Mul(dy, dy)))

\* JavaScript truthiness of a number-or-null value: null, NaN and 0 are falsy
Truthy(v) == v # NULL /\ ~IsNaN(v) /\ v[1] # 0

Pt(x, y) == [x |-> FromInt(x), y |-> FromInt(y)]

----------------------------------------------------------------------------
(* calculatePolygonData, lines 17-47.                                      *)

SHOTOK_SQ_FT == Rat(4356, 10)
KATHA_SQ_FT == FromInt(720)

\* the vertex after vertex i without the wrap-around to the first
NextIndexClamped(points, i) == IF i = Len(points) THEN i ELSE i + 1

\* the vertex after vertex i, (i + 1) % points.length in 0-based terms
NextIndex(points, i) == (i % Len(points)) + 1

RECURSIVE SideLengths(_, _, _)
\* the first loop: lengths.push(pixelDist / scale) for every edge from i on
SideLengths(points, sc, i) ==
    IF i > Len(points) THEN <<>>
    ELSE LET p1 == points[i]
             p2 == points[NextIndex(points, i)]
             pixelDist == Hypot(Sub(p2.x, p1.x), Sub(p2.y, p1.y))
         IN  <<Div(pixelDist, sc)>> \o SideLengths(points, sc, i + 1)

RECURSIVE ShoelaceSum(_, _)
\* the second loop: area += p1.x * p2.y - p2.x * p1.y
ShoelaceSum(points, i) ==
    IF i > Len(points) THEN Zero
    ELSE LET p1 == points[i]
             p2 == points[NextIndex(points, i)]
         IN  Add(Sub(Mul(p1.x, p2.y), Mul(p2.x, p1.y)), ShoelaceSum(points, i + 1))

\* null, or a one-element tuple holding the result object
calculatePolygonData(points, sc) ==
    IF Len(points) < 3 \/ ~Truthy(sc) THEN NULL
    ELSE LET pixelArea == Abs(Div(ShoelaceSum(points, 1), FromInt(2)))
             sqft == Div(pixelArea, Mul(sc, sc))
         IN  <<[sqft |-> sqft,
                shotok |-> Div(sqft, SHOTOK_SQ_FT),
                katha |-> Div(sqft, KATHA_SQ_FT),
                lengths |-> SideLengths(points, sc, 1)]>>

RECURSIVE SumOf(_)
\* reduce((a, b) => a + b, 0)
SumOf(q) == IF q = <<>> THEN Zero ELSE Add(q[1], SumOf(Tail(q)))

\* SideLengthsList, line 170: the perimeter shown under the side lengths
perimeter(lengths) == SumOf(SubSeq(lengths, 1, Len(lengths) - 1))

----------------------------------------------------------------------------
(* parseFloat on the text of a number field: an optional sign, digits, an  *)
(* optional fraction; parsing stops at the first other character and the   *)
(* result is NaN when no digit was read.  A text is a tuple of characters. *)

Digits == {"0", "1", "2", "3", "4", "5", "6", "7", "8", "9"}

DigitVal(c) ==
    CASE c = "0" -> 0 [] c = "1" -> 1 [] c = "2" -> 2 [] c = "3" -> 3
      [] c = "4" -> 4 [] c = "5" -> 5 [] c = "6" -> 6 [] c = "7" -> 7
      [] c = "8" -> 8 [] c = "9" -> 9

RECURSIVE DigitRun(_, _)
\* how many digits the text has from position i on
DigitRun(s, i) == IF i <= Len(s) /\ s[i] \in Digits THEN 1 + DigitRun(s, i + 1) ELSE 0

RECURSIVE DigitsValue(_, _, _)
\* the value of the n digits starting at position i
DigitsValue(s, i, n) ==
    IF n = 0 THEN 0 ELSE DigitsValue(s, i, n - 1) * 10 + DigitVal(s[i + n - 1])

RECURSIVE Pow10(_)
Pow10(n) == IF n = 0 THEN 1 ELSE 10 * Pow10(n - 1)

parseFloat(s) ==
    LET neg == Len(s) >= 1 /\ s[1] = "-"
        i0 == IF Len(s) >= 1 /\ s[1] \in {"-", "+"} THEN 2 ELSE 1
        ni == DigitRun(s, i0)
        dot == i0 + ni <= Len(s) /\ s[i0 + ni] = "."
        nf == IF dot THEN DigitRun(s, i0 + ni + 1) ELSE 0
    IN  IF ni + nf = 0 THEN NaN
        ELSE LET mag == Rat(DigitsValue(s, i0, ni) * Pow10(nf)
                              + DigitsValue(s, i0 + ni + 1, nf), Pow10(nf))
             IN  IF neg THEN Neg(mag) ELSE mag

----------------------------------------------------------------------------
(* JSON values, as JSON.parse returns them (handleLoadChange, line 549).   *)
(* A value is a record tagged with its kind; an object holds a record of   *)
(* its fields.  JSyntaxError stands for a text JSON.parse throws on.       *)

JNum(a) == [t |-> "number", v |-> a]
JStr(s) == [t |-> "string", v |-> s]
JBool(b) == [t |-> "boolean", v |-> b]
JNull == [t |-> "null"]
JUndefined == [t |-> "undefined"]
JArr(q) == [t |-> "array", v |-> q]
JObj(f) == [t |-> "object", v |-> f]
JSyntaxError == [t |-> "syntax_error"]
JPoint(x, y) == JObj([x |-> JNum(FromInt(x)), y |-> JNum(FromInt(y))])

\* typeof v
TypeOf(v) ==
    IF v.t \in {"null", "array", "object"} THEN "object" ELSE v.t

\* the truthiness of v
JTruthy(v) ==
    CASE v.t = "number" -> Truthy(v.v)
      [] v.t = "string" -> v.v # ""
      [] v.t = "boolean" -> v.v
      [] v.t \in {"null", "undefined"} -> FALSE
      [] OTHER -> TRUE

\* v.k throws a TypeError on null and undefined
FieldThrows(v) == v.t \in {"null", "undefined"}

\* v.k where it does not throw: undefined unless v is an object with field k
Field(v, k) ==
    IF v.t = "object" /\ k \in DOMAIN v.v THEN v.v[k] ELSE JUndefined

----------------------------------------------------------------------------
(* Program constants.                                                      *)

\* no least length of a calibration line
CALIB_NO_MIN_DIST == Zero

SNAP_THRESHOLD == 5
CALIB_DEBOUNCE_MS == 250
CALIB_MIN_DIST == Rat(1, 1000)
TAP_GRACE_MS == 200
TAP_MIN_MS == 50
TAP_MOVE_PX == 6
PINCH_DEADZONE == Rat(1, 2)
\* the touch clock is compared with TAP_MIN_MS and TAP_GRACE_MS only;
\* it stops at the first step beyond both
TOUCH_CLOCK_CAP_MS == CALIB_DEBOUNCE_MS

(* Bounds of the model.                                                    *)

\* the most vertices a polygon is given
MaxPts == 3
\* the most snapshot timers pending at once
MaxTimers == 1
\* the most image decodes pending at once
MaxDecodes == 1
\* the most fingers on the stage at once
MaxFingers == 3
\* the most pinches started in one run
MaxPinches == 1

(* Inputs.                                                                 *)

\* pointer positions on the stage, in screen pixels
ClickPoints == {Pt(0, 0), Pt(3, 4)}
\* where a dragged vertex is dropped, in layer coordinates
DropPoints == {Pt(0, 0)}
\* where a dragged stage is dropped
PanPoints == {Pt(0, 0)}
\* how far the clock moves in one step, in ms
TickSteps == {250}
\* the same while fingers are followed
TouchTickSteps == {250}
\* client positions where fingers land
LandPoints == {Pt(0, 0)}
\* client positions fingers move to
TouchPoints == {Pt(0, 0), Pt(6, 8)}
\* the top-left corner of the stage container in client coordinates
\* (getBoundingClientRect, lines 580 and 911)
ContainerOrigin == Pt(0, 0)
\* texts typed into the distance and manual-scale fields
NumberTexts == << <<>>, <<"a">>, <<"0">>, <<"-", "5">>, <<"2", ".", "5">> >>
\* the files offered to the JSON load
LoadFiles ==
    << JSyntaxError,
       JNum(FromInt(7)),
       JNull,
       JObj([scale |-> JNum(FromInt(2))]),
       JObj([plotPoints |-> JArr(<<JObj([x |-> JNum(FromInt(1))])>>)]),
       JObj([plotPoints |-> JArr(<<JNull>>)]),
       JObj([plotPoints |-> JArr(<<JPoint(0, 0), JObj([x |-> JNum(FromInt(1)), y |-> JStr("2")])>>)]),
       JObj([scale |-> JNum(FromInt(-2)), plotPoints |-> JArr(<<JPoint(0, 0)>>)]),
       JObj([scale |-> JStr("3"), plotPoints |-> JArr(<<JPoint(0, 0)>>)]),
       JObj([scale |-> JNum(Zero), plotPoints |-> JArr(<<JPoint(0, 0)>>)]),
       JObj([scale |-> JBool(FALSE), plotPoints |-> JArr(<<JPoint(0, 0)>>)]),
       JObj([scale |-> JNull, plotPoints |-> JArr(<<JPoint(0, 0), JPoint(12, 0), JPoint(3, 4)>>)]),
       JObj([plotPoints |-> JArr(<<>>)]),
       JObj([plotPoints |-> JArr(<<JPoint(0, 0), JPoint(12, 0), JPoint(3, 4)>>)]),
       JObj([scale |-> JNum(FromInt(2)), plotPoints |-> JArr(<<JPoint(12, 0), JPoint(0, 0)>>)]) >>

----------------------------------------------------------------------------
(* State.                                                                  *)

VARIABLES
    image,             \* useState image: whether a map image is set
    selectedFile,      \* useState selectedFile: whether a file is selected
    decoding,          \* image decodes started and not yet completed
    mode,              \* "none", "calibrating", "manual_scale", "drawing_plot"
    isModalOpen,
    showManualScale,
    scale,             \* null or a number
    calibrationLine,   \* a sequence of numbers
    isDrawing,
    plotPoints,        \* a sequence of points [x, y]
    results,           \* null or <<result object>>
    isPlotFinished,
    reportImage,       \* null or <<"dataURL">>
    snapHint,
    captureTimers,     \* setTimeout callbacks of finishPlot not yet run
    stagePos,
    stageScale,
    sinceCalibClick,   \* Date.now() - lastCalibClickRef.current, capped at
                       \* CALIB_DEBOUNCE_MS (the debounce compares only this)
    sinceCalibDown,    \* history: the time since the last pointer-down that
                       \* set the calibration line, capped likewise
    touches,           \* the fingers on the stage: their client positions
    isPinching,
    isPinchingRef,
    lastPinchDistRef,
    pinchStartRef,
    pinchRafRef,       \* null or <<the frame callback's closure>>
    blockTapRef,
    pinchLastStartRef, \* -1 for the value 0; else the time of the last pinch
                       \* start minus touchSessionRef.current.startTime
    touchSessionRef,   \* active, single, moved, startClient
    sinceTouchStart,   \* Date.now() - touchSessionRef.current.startTime,
                       \* capped at TOUCH_CLOCK_CAP_MS
    pinchStarts,       \* history: how many pinches were started
    tapForwarded,      \* history: the last touch handler run called
                       \* addPointerByPos
    fingerSession,     \* history: "none" before any touch; "single" since a
                       \* touch-start of one finger on a free stage; "joined"
                       \* once more fingers landed during it; "multi" since a
                       \* touch-start of several fingers on a free stage
    wheelAccumRef,     \* the wheel deltas not yet applied
    wheelRafRef        \* null or <<the frame callback's closure>>

fileVars == <<image, selectedFile, decoding>>
calibClocks == <<sinceCalibClick, sinceCalibDown>>
scaleVars == <<scale, calibrationLine, isDrawing, calibClocks>>
plotVars == <<plotPoints, results, isPlotFinished, reportImage, snapHint>>
viewVars == <<stagePos, stageScale>>
uiVars == <<mode, isModalOpen, showManualScale>>

pinchVars == <<isPinching, isPinchingRef, lastPinchDistRef, pinchStartRef, pinchRafRef>>
tapVars == <<blockTapRef, pinchLastStartRef, touchSessionRef, sinceTouchStart>>
touchVars == <<touches, pinchVars, tapVars, pinchStarts, tapForwarded, fingerSession>>

wheelVars == <<wheelAccumRef, wheelRafRef>>

vars == <<fileVars, uiVars, scaleVars, plotVars, captureTimers, viewVars, touchVars,
          wheelVars>>

\* the useState and useRef initial values, lines 226-267
Init ==
    /\ image = FALSE
    /\ selectedFile = FALSE
    /\ decoding = 0
    /\ mode = "none"
    /\ isModalOpen = FALSE
    /\ showManualScale = FALSE
    /\ scale = NULL
    /\ calibrationLine = <<>>
    /\ isDrawing = FALSE
    /\ plotPoints = <<>>
    /\ results = NULL
    /\ isPlotFinished = FALSE
    /\ reportImage = NULL
    /\ snapHint = FALSE
    /\ captureTimers = 0
    /\ stagePos = Pt(0, 0)
    /\ stageScale = FromInt(1)
    /\ sinceCalibClick = CALIB_DEBOUNCE_MS
    /\ sinceCalibDown = CALIB_DEBOUNCE_MS
    /\ touches = <<>>
    /\ isPinching = FALSE
    /\ isPinchingRef = FALSE
    /\ lastPinchDistRef = Zero
    /\ pinchStartRef = [distance |-> Zero, scale |-> FromInt(1),
                        stagePos |-> Pt(0, 0), centerClient |-> Pt(0, 0)]
    /\ pinchRafRef = NULL
    /\ blockTapRef = FALSE
    /\ pinchLastStartRef = -1
    /\ touchSessionRef = [active |-> FALSE, single |-> TRUE, moved |-> FALSE,
                          startClient |-> Pt(0, 0)]
    /\ sinceTouchStart = TOUCH_CLOCK_CAP_MS
    /\ pinchStarts = 0
    /\ tapForwarded = FALSE
    /\ fingerSession = "none"
    /\ wheelAccumRef = 0
    /\ wheelRafRef = NULL

----------------------------------------------------------------------------
(* Shared pieces of the handlers.                                          *)

Min(a, b) == IF a < b THEN a ELSE b

\* the results computed for an unfinished polygon as well
ResultsEffectWhileDrawing(changed) ==
    results' = IF changed
               THEN calculatePolygonData(plotPoints', scale')
               ELSE results

\* the results computed on Finish only, not on later changes
ResultsEffectOnFinishOnly(changed) ==
    results' = IF isPlotFinished' /\ ~isPlotFinished
               THEN calculatePolygonData(plotPoints', scale')
               ELSE results

\* the useEffect of lines 280-285, run after the render an update causes:
\* `changed` says whether plotPoints, scale or isPlotFinished changed
ResultsEffect(changed) ==
    results' = IF isPlotFinished' /\ changed
               THEN calculatePolygonData(plotPoints', scale')
               ELSE results

\* clearPlot without its setResults(null)
clearPlotKeepingResults ==
    /\ plotPoints' = <<>>
    /\ UNCHANGED results
    /\ isPlotFinished' = FALSE
    /\ reportImage' = NULL

\* lines 495-500
clearPlot ==
    /\ plotPoints' = <<>>
    /\ results' = NULL
    /\ isPlotFinished' = FALSE
    /\ reportImage' = NULL

\* resetState without its setStageScale(1) and setStagePos({x: 0, y: 0})
resetStateKeepingView ==
    /\ scale' = NULL
    /\ showManualScale' = FALSE
    /\ calibrationLine' = <<>>
    /\ plotPoints' = <<>>
    /\ results' = NULL
    /\ reportImage' = NULL
    /\ mode' = "none"
    /\ isDrawing' = FALSE
    /\ isPlotFinished' = FALSE
    /\ UNCHANGED <<stageScale, stagePos>>

\* lines 294-308 (manualScale, the text of the field, is an input here)
resetState ==
    /\ scale' = NULL
    /\ showManualScale' = FALSE
    /\ calibrationLine' = <<>>
    /\ plotPoints' = <<>>
    /\ results' = NULL
    /\ reportImage' = NULL
    /\ mode' = "none"
    /\ isDrawing' = FALSE
    /\ isPlotFinished' = FALSE
    /\ stageScale' = FromInt(1)
    /\ stagePos' = Pt(0, 0)

\* lines 372-375
getPointerPos(pos) ==
    [x |-> Div(Sub(pos.x, stagePos.x), stageScale),
     y |-> Div(Sub(pos.y, stagePos.y), stageScale)]

\* a placement without the snap
NoSnap(first, pos) == [x |-> pos.x, y |-> pos.y]

\* the closing-point snap of lines 400-410 and 471-477
SnapToFirst(first, pos) ==
    IF Le(Hypot(Sub(pos.x, first.x), Sub(pos.y, first.y)), FromInt(SNAP_THRESHOLD))
    THEN [x |-> first.x, y |-> first.y]
    ELSE [x |-> pos.x, y |-> pos.y]

\* the point appended by the drawing_plot branch, lines 399-414
PlacedPoint(prev, pos) ==
    IF Len(prev) > 0 THEN SnapToFirst(prev[1], pos) ELSE [x |-> pos.x, y |-> pos.y]

\* the calibrating branch without the debounce of lines 382-384
AddCalibrationPointUndebounced(pos) ==
    /\ sinceCalibClick' = 0
    /\ IF Len(calibrationLine) < 2
       THEN /\ calibrationLine' = <<pos.x, pos.y>>
            /\ isDrawing' = TRUE
            /\ sinceCalibDown' = 0
       ELSE LET x1 == calibrationLine[1]
                y1 == calibrationLine[2]
                dist == Hypot(Sub(pos.x, x1), Sub(pos.y, y1))
            IN  IF Lt(dist, CALIB_MIN_DIST)
                THEN UNCHANGED <<calibrationLine, isDrawing, sinceCalibDown>>
                ELSE /\ calibrationLine' = <<x1, y1, pos.x, pos.y>>
                     /\ isDrawing' = FALSE
                     /\ sinceCalibDown' = 0

\* the calibrating branch of addPointerByPos, lines 381-397
AddCalibrationPoint(pos) ==
    IF sinceCalibClick < CALIB_DEBOUNCE_MS
    THEN UNCHANGED <<calibrationLine, isDrawing, calibClocks>>
    ELSE /\ sinceCalibClick' = 0
         /\ IF Len(calibrationLine) < 2
            THEN /\ calibrationLine' = <<pos.x, pos.y>>
                 /\ isDrawing' = TRUE
                 /\ sinceCalibDown' = 0
            ELSE LET x1 == calibrationLine[1]
                     y1 == calibrationLine[2]
                     dist == Hypot(Sub(pos.x, x1), Sub(pos.y, y1))
                 IN  IF Lt(dist, CALIB_MIN_DIST)
                     THEN UNCHANGED <<calibrationLine, isDrawing, sinceCalibDown>>
                     ELSE /\ calibrationLine' = <<x1, y1, pos.x, pos.y>>
                          /\ isDrawing' = FALSE
                          /\ sinceCalibDown' = 0

\* addPointerByPos, lines 378-416, but for its setSnapHint; a polygon is
\* given at most MaxPts vertices
addPointerByPos(pos) ==
    CASE mode = "calibrating" ->
            /\ AddCalibrationPoint(pos)
            /\ UNCHANGED plotPoints
      [] mode = "drawing_plot" ->
            /\ Len(plotPoints) < MaxPts
            /\ plotPoints' = Append(plotPoints, PlacedPoint(plotPoints, pos))
            /\ UNCHANGED <<calibrationLine, isDrawing, calibClocks>>
      [] OTHER ->
            UNCHANGED <<calibrationLine, isDrawing, calibClocks, plotPoints>>

\* the snap hint after addPointerByPos: setSnapHint(false) of line 412
HintAfterAdd == IF mode = "drawing_plot" THEN FALSE ELSE snapHint

\* a live endpoint that is appended instead of replaced
LiveLineAppending(prev, pos) ==
    IF Len(prev) >= 2 THEN prev \o <<pos.x, pos.y>> ELSE prev

\* the live second endpoint, lines 797-800 and 867-870
LiveLine(prev, pos) ==
    IF Len(prev) >= 2 THEN <<prev[1], prev[2], pos.x, pos.y>> ELSE prev

\* the snap hint of lines 804-807 and 881-884
NearFirst(pos) ==
    Le(Hypot(Sub(pos.x, plotPoints[1].x), Sub(pos.y, plotPoints[1].y)),
       FromInt(SNAP_THRESHOLD))

\* element i of a destructured array: undefined, NaN in arithmetic, when absent
Elem(q, i) == IF i <= Len(q) THEN q[i] ELSE NaN

\* the modal overlay (line 73, fixed inset-0 z-50) covers the page while the
\* modal is open: no pointer event reaches the controls or the stage under it
Reachable == ~isModalOpen

----------------------------------------------------------------------------
(* Image upload, lines 323-370.                                            *)

\* handleImageUpload: the file input is rendered only while no file is
\* selected (line 607); the decode completes later
UploadFile ==
    /\ Reachable
    /\ ~selectedFile
    /\ decoding < MaxDecodes
    /\ selectedFile' = TRUE
    /\ decoding' = decoding + 1
    /\ UNCHANGED <<image, uiVars, scaleVars, plotVars, captureTimers, viewVars,
                   touchVars, wheelVars>>

\* img.onload, lines 355 and 366: resetState(true); setImage(img)
ImageReady ==
    /\ decoding > 0
    /\ decoding' = decoding - 1
    /\ resetState
    /\ image' = TRUE
    /\ UNCHANGED <<selectedFile, isModalOpen, snapHint, calibClocks,
                   captureTimers, touchVars, wheelVars>>

\* the catch of lines 356-359: the decode fails and nothing is reset
ImageFails ==
    /\ decoding > 0
    /\ decoding' = decoding - 1
    /\ UNCHANGED <<image, selectedFile, uiVars, scaleVars, plotVars,
                   captureTimers, viewVars, touchVars, wheelVars>>

\* handleClearFile, lines 323-332
ClearFile ==
    /\ Reachable
    /\ selectedFile
    /\ selectedFile' = FALSE
    /\ image' = FALSE
    /\ UNCHANGED <<decoding, uiVars, scaleVars, plotVars, captureTimers,
                   viewVars, touchVars, wheelVars>>

----------------------------------------------------------------------------
(* Scale controls.                                                         *)

\* the draw-scale button, lines 671-685
DrawScaleClick ==
    /\ Reachable
    /\ image
    /\ mode # "calibrating"
    /\ mode' = "calibrating"
    /\ showManualScale' = FALSE
    /\ clearPlot
    /\ isDrawing' = FALSE
    /\ calibrationLine' = <<>>
    /\ sinceCalibClick' = CALIB_DEBOUNCE_MS
    /\ UNCHANGED sinceCalibDown
    /\ UNCHANGED <<fileVars, isModalOpen, scale, snapHint, captureTimers,
                   viewVars, touchVars, wheelVars>>

\* the manual-scale toggle, lines 686-700
ManualToggle ==
    /\ Reachable
    /\ image
    /\ showManualScale' = ~showManualScale
    /\ mode' = IF showManualScale THEN "none" ELSE "manual_scale"
    /\ UNCHANGED <<fileVars, isModalOpen, scaleVars, plotVars, captureTimers,
                   viewVars, touchVars, wheelVars>>

\* handleManualScaleSubmit, lines 310-321, on the text of the field
ManualSubmit(text) ==
    /\ Reachable
    /\ showManualScale
    /\ LET scaleValue == parseFloat(text)
       IN  IF ~IsNaN(scaleValue) /\ Lt(Zero, scaleValue)
           THEN /\ scale' = scaleValue
                /\ mode' = "none"
                /\ showManualScale' = FALSE
           ELSE UNCHANGED <<scale, mode, showManualScale>>
    /\ UNCHANGED <<plotPoints, isPlotFinished>>
    /\ ResultsEffect(scale' # scale)
    /\ UNCHANGED <<fileVars, isModalOpen, calibrationLine, isDrawing,
                   calibClocks, reportImage, snapHint, captureTimers,
                   viewVars, touchVars, wheelVars>>

\* the Change link beside the scale badge, lines 779-784
ChangeClick ==
    /\ Reachable
    /\ Truthy(scale)
    /\ mode' = "calibrating"
    /\ calibrationLine' = <<>>
    /\ isDrawing' = FALSE
    /\ UNCHANGED <<fileVars, isModalOpen, showManualScale, scale,
                   calibClocks, plotVars, captureTimers, viewVars,
                   touchVars, wheelVars>>

\* the Confirm button, lines 733-745
ConfirmClick ==
    /\ Reachable
    /\ mode = "calibrating"
    /\ Len(calibrationLine) >= 4
    /\ isDrawing' = FALSE
    /\ mode' = "none"
    /\ isModalOpen' = TRUE
    /\ UNCHANGED <<fileVars, showManualScale, scale, calibrationLine,
                   calibClocks, plotVars, captureTimers, viewVars,
                   touchVars, wheelVars>>

\* the Redraw/Undo button of calibration, lines 746-758
RedrawClick ==
    /\ Reachable
    /\ mode = "calibrating"
    /\ Len(calibrationLine) >= 4
    /\ calibrationLine' = <<calibrationLine[1], calibrationLine[2]>>
    /\ isDrawing' = TRUE
    /\ UNCHANGED <<fileVars, uiVars, scale, calibClocks, plotVars,
                   captureTimers, viewVars, touchVars, wheelVars>>

\* the Cancel button of calibration, lines 759-764
CancelClick ==
    /\ Reachable
    /\ mode = "calibrating"
    /\ calibrationLine' = <<>>
    /\ isDrawing' = FALSE
    /\ mode' = "none"
    /\ UNCHANGED <<fileVars, isModalOpen, showManualScale, scale,
                   calibClocks, plotVars, captureTimers, viewVars,
                   touchVars, wheelVars>>

\* _handleModalSubmit with the quotient inverted
HandleModalSubmitInverted(realDistance) ==
    IF IsNaN(realDistance) \/ Le(realDistance, Zero)
    THEN UNCHANGED <<scale, isModalOpen, calibrationLine>>
    ELSE LET x1 == Elem(calibrationLine, 1)
             y1 == Elem(calibrationLine, 2)
             x2 == Elem(calibrationLine, 3)
             y2 == Elem(calibrationLine, 4)
             pixelDistance == Hypot(Sub(x2, x1), Sub(y2, y1))
         IN  /\ scale' = Div(realDistance, pixelDistance)
             /\ isModalOpen' = FALSE
             /\ calibrationLine' = <<>>

\* _handleModalSubmit, lines 451-463
HandleModalSubmit(realDistance) ==
    IF IsNaN(realDistance) \/ Le(realDistance, Zero)
    THEN UNCHANGED <<scale, isModalOpen, calibrationLine>>
    ELSE LET x1 == Elem(calibrationLine, 1)
             y1 == Elem(calibrationLine, 2)
             x2 == Elem(calibrationLine, 3)
             y2 == Elem(calibrationLine, 4)
             pixelDistance == Hypot(Sub(x2, x1), Sub(y2, y1))
         IN  /\ scale' = Div(pixelDistance, realDistance)
             /\ isModalOpen' = FALSE
             /\ calibrationLine' = <<>>

\* Modal.handleSubmit closing the modal on a rejected text
ModalSubmitClosing(text) ==
    /\ isModalOpen
    /\ LET num == parseFloat(text)
       IN  IF ~IsNaN(num) /\ Lt(Zero, num)
           THEN HandleModalSubmit(num)
           ELSE /\ isModalOpen' = FALSE
                /\ calibrationLine' = <<>>
                /\ UNCHANGED scale
    /\ UNCHANGED <<plotPoints, isPlotFinished>>
    /\ ResultsEffect(scale' # scale)
    /\ UNCHANGED <<fileVars, mode, showManualScale, isDrawing, calibClocks,
                   reportImage, snapHint, captureTimers, viewVars,
                   touchVars, wheelVars>>

\* Modal.handleSubmit, lines 55-64, on the text of the field
ModalSubmit(text) ==
    /\ isModalOpen
    /\ LET num == parseFloat(text)
       IN  IF ~IsNaN(num) /\ Lt(Zero, num)
           THEN HandleModalSubmit(num)
           ELSE UNCHANGED <<scale, isModalOpen, calibrationLine>>
    /\ UNCHANGED <<plotPoints, isPlotFinished>>
    /\ ResultsEffect(scale' # scale)
    /\ UNCHANGED <<fileVars, mode, showManualScale, isDrawing, calibClocks,
                   reportImage, snapHint, captureTimers, viewVars,
                   touchVars, wheelVars>>

\* Modal.handleClose and the onClose of line 597
ModalClose ==
    /\ isModalOpen
    /\ calibrationLine' = <<>>
    /\ isDrawing' = FALSE
    /\ isModalOpen' = FALSE
    /\ UNCHANGED <<fileVars, mode, showManualScale, scale, calibClocks,
                   plotVars, captureTimers, viewVars, touchVars, wheelVars>>

----------------------------------------------------------------------------
(* Plot controls.                                                          *)

\* the draw-plot button without its clearPlot()
DrawPlotClickKeepingPlot ==
    /\ Reachable
    /\ Truthy(scale)
    /\ mode # "drawing_plot"
    /\ mode' = "drawing_plot"
    /\ UNCHANGED <<fileVars, isModalOpen, showManualScale, scaleVars, plotVars,
                   captureTimers, viewVars, touchVars, wheelVars>>

\* the draw-plot button, lines 725-728
DrawPlotClick ==
    /\ Reachable
    /\ Truthy(scale)
    /\ mode # "drawing_plot"
    /\ mode' = "drawing_plot"
    /\ clearPlot
    /\ UNCHANGED <<fileVars, isModalOpen, showManualScale, scaleVars, snapHint,
                   captureTimers, viewVars, touchVars, wheelVars>>

\* finishPlot without its test of plotPoints.length
FinishClickAnyCount ==
    /\ Reachable
    /\ mode = "drawing_plot"
    /\ isPlotFinished' = TRUE
    /\ mode' = "none"
    /\ captureTimers' = Min(captureTimers + 1, MaxTimers)
    /\ UNCHANGED <<plotPoints, scale>>
    /\ ResultsEffect(~isPlotFinished)
    /\ UNCHANGED <<fileVars, isModalOpen, showManualScale, calibrationLine,
                   isDrawing, calibClocks, reportImage, snapHint,
                   viewVars, touchVars, wheelVars>>

\* the Finish button and finishPlot, lines 483-493 and 769; the timer of
\* line 488 is one more pending capture (at most MaxTimers are kept)
FinishClick ==
    /\ Reachable
    /\ mode = "drawing_plot"
    /\ Len(plotPoints) >= 3
    /\ isPlotFinished' = TRUE
    /\ mode' = "none"
    /\ captureTimers' = Min(captureTimers + 1, MaxTimers)
    /\ UNCHANGED <<plotPoints, scale>>
    /\ ResultsEffect(~isPlotFinished)
    /\ UNCHANGED <<fileVars, isModalOpen, showManualScale, calibrationLine,
                   isDrawing, calibClocks, reportImage, snapHint,
                   viewVars, touchVars, wheelVars>>

\* the timer callback of lines 488-492 (stageRef.current is set while the
\* component is mounted)
CaptureFire ==
    /\ captureTimers > 0
    /\ captureTimers' = captureTimers - 1
    /\ reportImage' = <<"dataURL">>
    /\ UNCHANGED <<fileVars, uiVars, scaleVars, plotPoints, results,
                   isPlotFinished, snapHint, viewVars, touchVars, wheelVars>>

\* the Undo button of drawing, line 770
UndoClick ==
    /\ Reachable
    /\ mode = "drawing_plot"
    /\ Len(plotPoints) # 0
    /\ plotPoints' = SubSeq(plotPoints, 1, Len(plotPoints) - 1)
    /\ UNCHANGED <<scale, isPlotFinished>>
    /\ ResultsEffect(TRUE)
    /\ UNCHANGED <<fileVars, uiVars, calibrationLine, isDrawing,
                   calibClocks, reportImage, snapHint, captureTimers,
                   viewVars, touchVars, wheelVars>>

\* the Clear button of drawing, line 771
ClearClick ==
    /\ Reachable
    /\ mode = "drawing_plot"
    /\ Len(plotPoints) # 0
    /\ clearPlot
    /\ UNCHANGED <<fileVars, uiVars, scaleVars, snapHint, captureTimers,
                   viewVars, touchVars, wheelVars>>

----------------------------------------------------------------------------
(* Stage events by mouse.                                                  *)

\* handleStageMouseDown, lines 418-423, with the pointer at screen point p
StageMouseDown(p) ==
    /\ Reachable
    /\ mode # "none"
    /\ addPointerByPos(getPointerPos(p))
    /\ snapHint' = HintAfterAdd
    /\ UNCHANGED <<scale, isPlotFinished>>
    /\ ResultsEffect(plotPoints' # plotPoints)
    /\ UNCHANGED <<fileVars, uiVars, reportImage, captureTimers, viewVars,
                   touchVars, wheelVars>>

\* onMouseMove, lines 793-809
StageMouseMove(p) ==
    /\ Reachable
    /\ IF mode = "calibrating" /\ isDrawing
       THEN /\ calibrationLine' = LiveLine(calibrationLine, getPointerPos(p))
            /\ UNCHANGED snapHint
       ELSE IF mode = "drawing_plot" /\ ~isPlotFinished /\ Len(plotPoints) > 0
       THEN /\ snapHint' = NearFirst(getPointerPos(p))
            /\ UNCHANGED calibrationLine
       ELSE UNCHANGED <<calibrationLine, snapHint>>
    /\ UNCHANGED <<fileVars, uiVars, scale, isDrawing, calibClocks,
                   plotPoints, results, isPlotFinished, reportImage,
                   captureTimers, viewVars, touchVars, wheelVars>>

\* a drag end that snaps vertex 0 as well
DraggedPointAnyIndex(points, index, pos) ==
    IF Len(points) > 0
    THEN SnapToFirst(points[1], pos)
    ELSE [x |-> pos.x, y |-> pos.y]

\* the vertex after handlePointDragEnd, lines 465-478: index is 0-based
DraggedPoint(points, index, pos) ==
    IF index # 0 /\ Len(points) > 0
    THEN SnapToFirst(points[1], pos)
    ELSE [x |-> pos.x, y |-> pos.y]

\* a vertex circle is dropped at pos (layer coordinates): handlePointDragEnd,
\* lines 465-481.  Konva bubbles the circle's dragend to the Stage, whose
\* onDragEnd (line 934) sets stagePos to e.target.position(), the position
\* of the circle.
PointDragEnd(index, pos) ==
    /\ Reachable
    /\ isPlotFinished
    /\ index \in 0..(Len(plotPoints) - 1)
    /\ plotPoints' = [plotPoints EXCEPT ![index + 1] = DraggedPoint(plotPoints, index, pos)]
    /\ snapHint' = FALSE
    /\ stagePos' = [x |-> pos.x, y |-> pos.y]
    /\ UNCHANGED <<scale, isPlotFinished>>
    /\ ResultsEffect(TRUE)
    /\ UNCHANGED <<fileVars, uiVars, calibrationLine, isDrawing,
                   calibClocks, reportImage, captureTimers, stageScale,
                   touchVars, wheelVars>>

\* the Stage is dragged and dropped at pos: draggable and onDragEnd,
\* lines 933-934
StageDragEnd(pos) ==
    /\ Reachable
    /\ (mode = "none" \/ isPlotFinished) /\ ~isPinching
    /\ stagePos' = [x |-> pos.x, y |-> pos.y]
    /\ UNCHANGED <<fileVars, uiVars, scaleVars, plotVars, captureTimers,
                   stageScale, touchVars, wheelVars>>

----------------------------------------------------------------------------
(* JSON load, lines 538-569.                                               *)

\* the try block throws before any state is set: lines 549-552
LoadRejected(obj) ==
    \/ obj.t = "syntax_error"
    \/ ~JTruthy(obj) \/ TypeOf(obj) # "object"
    \/ LET pp == Field(obj, "plotPoints")
       IN  \/ pp.t # "array"
           \/ \E i \in 1..Len(pp.v) :
                 \/ FieldThrows(pp.v[i])
                 \/ TypeOf(Field(pp.v[i], "x")) # "number"
                 \/ TypeOf(Field(pp.v[i], "y")) # "number"
    \/ LET sc == Field(obj, "scale")
       IN  JTruthy(sc) /\ ~(TypeOf(sc) = "number" /\ Lt(Zero, sc.v))

\* a load that keeps no vertex of the file
NoLoadedPoints(obj) == <<>>

\* the vertices of a loaded file
LoadedPoints(obj) ==
    LET pp == Field(obj, "plotPoints").v
    IN  [i \in 1..Len(pp) |-> [x |-> Field(pp[i], "x").v, y |-> Field(pp[i], "y").v]]

\* a load that empties the calibration line before it validates the file
LoadJSONClearingFirst(obj) ==
    /\ Reachable
    /\ image
    /\ calibrationLine' = <<>>
    /\ IF LoadRejected(obj)
       THEN UNCHANGED <<scale, plotPoints, isPlotFinished, results, mode, snapHint>>
       ELSE /\ scale' = IF JTruthy(Field(obj, "scale"))
                        THEN Field(obj, "scale").v ELSE scale
            /\ plotPoints' = LoadedPoints(obj)
            /\ isPlotFinished' = FALSE
            /\ results' = NULL
            /\ mode' = "drawing_plot"
            /\ snapHint' = FALSE
    /\ UNCHANGED <<fileVars, isModalOpen, showManualScale, isDrawing,
                   calibClocks, reportImage, captureTimers, viewVars,
                   touchVars, wheelVars>>

\* reader.onload of handleLoadChange, lines 546-567, on the parsed file obj
\* (the file is read before the next event)
LoadJSON(obj) ==
    /\ Reachable
    /\ image
    /\ IF LoadRejected(obj)
       THEN UNCHANGED <<scale, plotPoints, isPlotFinished, results, mode,
                        calibrationLine, snapHint>>
       ELSE /\ scale' = IF JTruthy(Field(obj, "scale"))
                        THEN Field(obj, "scale").v ELSE scale
            /\ plotPoints' = LoadedPoints(obj)
            /\ isPlotFinished' = FALSE
            /\ results' = NULL
            /\ mode' = "drawing_plot"
            /\ calibrationLine' = <<>>
            /\ snapHint' = FALSE
    /\ UNCHANGED <<fileVars, isModalOpen, showManualScale, isDrawing,
                   calibClocks, reportImage, captureTimers, viewVars,
                   touchVars, wheelVars>>

----------------------------------------------------------------------------
(* Stage events by touch, lines 571-593 and 810-928.                       *)

\* Math.min and Math.max of two numbers
MathMin(a, b) == IF IsNaN(a) \/ IsNaN(b) THEN NaN ELSE IF Lt(b, a) THEN b ELSE a
MathMax(a, b) == IF IsNaN(a) \/ IsNaN(b) THEN NaN ELSE IF Lt(a, b) THEN b ELSE a

\* a clamp that keeps only the lower limit
clampFromBelow(val, min, max) == MathMax(min, val)

\* line 575
clamp(val, min, max) == MathMax(min, MathMin(max, val))

\* line 576
getMidpoint(t1, t2) ==
    [x |-> Div(Add(t1.x, t2.x), FromInt(2)), y |-> Div(Add(t1.y, t2.y), FromInt(2))]

\* line 577
getDistance(t1, t2) == Hypot(Sub(t2.x, t1.x), Sub(t2.y, t1.y))

\* lines 578-583
toLocalPointer(client) ==
    [x |-> Sub(client.x, ContainerOrigin.x), y |-> Sub(client.y, ContainerOrigin.y)]

\* lines 584-593
zoomAtPoint(newScale, clientPoint, anchorFrom) ==
    LET oldScale == anchorFrom.scale
        pointer == toLocalPointer(clientPoint)
        mousePointTo == [x |-> Div(Sub(pointer.x, anchorFrom.pos.x), oldScale),
                         y |-> Div(Sub(pointer.y, anchorFrom.pos.y), oldScale)]
    IN  /\ stageScale' = newScale
        /\ stagePos' = [x |-> Sub(pointer.x, Mul(mousePointTo.x, newScale)),
                        y |-> Sub(pointer.y, Mul(mousePointTo.y, newScale))]

\* all sequences over S of the lengths in ns
SeqsOf(S, ns) == UNION {[1..n -> S] : n \in ns}

\* the fingers of q outside the set lifted, in order
RECURSIVE Remaining(_, _, _)
Remaining(q, lifted, i) ==
    IF i > Len(q) THEN <<>>
    ELSE (IF i \in lifted THEN <<>> ELSE <<q[i]>>) \o Remaining(q, lifted, i + 1)

\* onTouchStart, lines 810-840: the fingers in new land on the stage
TouchStart(new) ==
    /\ Reachable
    /\ Len(new) >= 1
    /\ Len(touches) + Len(new) <= MaxFingers
    /\ Len(touches) + Len(new) = 2 => pinchStarts < MaxPinches
    /\ touches' = touches \o new
    /\ tapForwarded' = FALSE
    /\ fingerSession' = IF Len(touches) > 0
                        THEN (IF fingerSession = "single" THEN "joined" ELSE fingerSession)
                        ELSE IF Len(new) = 1 THEN "single" ELSE "multi"
    /\ IF Len(touches') = 2
       THEN LET d == getDistance(touches'[1], touches'[2])
            IN  /\ isPinchingRef' = TRUE
                /\ isPinching' = TRUE
                /\ lastPinchDistRef' = d
                /\ pinchStartRef' = [distance |-> d, scale |-> stageScale,
                                     stagePos |-> stagePos,
                                     centerClient |-> getMidpoint(touches'[1], touches'[2])]
                /\ blockTapRef' = TRUE
                /\ pinchLastStartRef' = sinceTouchStart
                /\ touchSessionRef' = [touchSessionRef EXCEPT !.active = FALSE]
                /\ pinchStarts' = pinchStarts + 1
                /\ UNCHANGED sinceTouchStart
       ELSE IF Len(touches') = 1
       THEN /\ touchSessionRef' = [active |-> TRUE, single |-> TRUE, moved |-> FALSE,
                                   startClient |-> touches'[1]]
            /\ sinceTouchStart' = 0
            /\ pinchLastStartRef' = -1
            /\ UNCHANGED <<isPinchingRef, isPinching, lastPinchDistRef,
                           pinchStartRef, blockTapRef, pinchStarts>>
       ELSE UNCHANGED <<isPinchingRef, isPinching, lastPinchDistRef, pinchStartRef,
                        blockTapRef, pinchLastStartRef, touchSessionRef,
                        sinceTouchStart, pinchStarts>>
    /\ UNCHANGED <<fileVars, uiVars, scaleVars, plotVars, captureTimers, viewVars,
                   pinchRafRef, wheelVars>>

\* onTouchMove, lines 841-886: finger i (1-based) moves to p; the stage's
\* pointer position is that of the first finger
TouchMove(i, p) ==
    /\ i \in 1..Len(touches)
    /\ touches[i] # p
    /\ touches' = [touches EXCEPT ![i] = p]
    /\ tapForwarded' = FALSE
    /\ IF isPinchingRef /\ Len(touches') = 2
       THEN LET newDist == getDistance(touches'[1], touches'[2])
                delta == Abs(Sub(newDist, lastPinchDistRef))
            IN  /\ blockTapRef' = TRUE
                /\ pinchRafRef' =
                      IF ~Lt(delta, PINCH_DEADZONE) /\ pinchRafRef = NULL
                      THEN <<[start |-> pinchStartRef, newDist |-> newDist,
                              centerClient |-> getMidpoint(touches'[1], touches'[2])]>>
                      ELSE pinchRafRef
                /\ UNCHANGED <<calibrationLine, touchSessionRef, snapHint>>
       ELSE IF mode = "calibrating" /\ isDrawing
       THEN LET t == touches'[1]
                moved == Lt(FromInt(TAP_MOVE_PX),
                            Hypot(Sub(t.x, touchSessionRef.startClient.x),
                                  Sub(t.y, touchSessionRef.startClient.y)))
            IN  /\ calibrationLine' = LiveLine(calibrationLine, getPointerPos(t))
                /\ touchSessionRef' =
                      IF touchSessionRef.active /\ touchSessionRef.single /\ moved
                      THEN [touchSessionRef EXCEPT !.moved = TRUE]
                      ELSE touchSessionRef
                /\ UNCHANGED <<blockTapRef, pinchRafRef, snapHint>>
       ELSE IF /\ mode = "drawing_plot"
               /\ ~isPlotFinished
               /\ Len(plotPoints) > 0
               /\ Len(touches') = 1
       THEN /\ snapHint' = NearFirst(getPointerPos(touches'[1]))
            /\ UNCHANGED <<blockTapRef, pinchRafRef, calibrationLine, touchSessionRef>>
       ELSE UNCHANGED <<blockTapRef, pinchRafRef, calibrationLine,
                        touchSessionRef, snapHint>>
    /\ UNCHANGED <<fileVars, uiVars, scale, isDrawing, calibClocks, plotPoints,
                   results, isPlotFinished, reportImage, captureTimers, viewVars,
                   wheelVars,
                   isPinching, isPinchingRef, lastPinchDistRef, pinchStartRef,
                   pinchLastStartRef, sinceTouchStart, pinchStarts, fingerSession>>

\* the pinch frame anchored on the present zoom and pan (the default
\* anchorFrom of zoomAtPoint) in place of the snapshot of the pinch start
PinchFrameFromPresent ==
    /\ pinchRafRef # NULL
    /\ pinchRafRef' = NULL
    /\ LET job == pinchRafRef[1]
           start == job.start
       IN  /\ IF Lt(Zero, start.distance)
              THEN LET rawScale == Mul(stageScale, Div(job.newDist, start.distance))
                       clamped == clamp(rawScale, Rat(1, 10), FromInt(10))
                   IN  zoomAtPoint(clamped, job.centerClient,
                                   [scale |-> stageScale, pos |-> stagePos])
              ELSE UNCHANGED <<stageScale, stagePos>>
           /\ lastPinchDistRef' = job.newDist
    /\ UNCHANGED <<fileVars, uiVars, scaleVars, plotVars, captureTimers, touches,
                   isPinching, isPinchingRef, pinchStartRef, tapVars, pinchStarts,
                   tapForwarded, fingerSession, wheelVars>>

\* the animation frame callback of lines 852-860
PinchFrame ==
    /\ pinchRafRef # NULL
    /\ pinchRafRef' = NULL
    /\ LET job == pinchRafRef[1]
           start == job.start
       IN  /\ IF Lt(Zero, start.distance)
              THEN LET rawScale == Mul(start.scale, Div(job.newDist, start.distance))
                       clamped == clamp(rawScale, Rat(1, 10), FromInt(10))
                   IN  zoomAtPoint(clamped, job.centerClient,
                                   [scale |-> start.scale, pos |-> start.stagePos])
              ELSE UNCHANGED <<stageScale, stagePos>>
           /\ lastPinchDistRef' = job.newDist
    /\ UNCHANGED <<fileVars, uiVars, scaleVars, plotVars, captureTimers, touches,
                   isPinching, isPinchingRef, pinchStartRef, tapVars, pinchStarts,
                   tapForwarded, fingerSession, wheelVars>>

\* the tap position of lines 909-919, from the start of the session
TapPos ==
    LET local == [x |-> Sub(touchSessionRef.startClient.x, ContainerOrigin.x),
                  y |-> Sub(touchSessionRef.startClient.y, ContainerOrigin.y)]
    IN  [x |-> Div(Sub(local.x, stagePos.x), stageScale),
         y |-> Div(Sub(local.y, stagePos.y), stageScale)]

\* lines 905-906: the pinch started within the grace window after the
\* touch-start (pinchLastStartRef is 0, below every start time, when -1)
pinchWithinWindow == pinchLastStartRef >= 0 /\ pinchLastStartRef <= TAP_GRACE_MS

\* onTouchEnd, lines 887-928: the fingers whose indices are in lifted leave
TouchEnd(lifted) ==
    /\ lifted # {}
    /\ lifted \subseteq 1..Len(touches)
    /\ touches' = Remaining(touches, lifted, 1)
    /\ UNCHANGED <<pinchStarts, fingerSession>>
    /\ IF Len(touches') >= 2
       THEN /\ tapForwarded' = FALSE
            /\ UNCHANGED <<isPinchingRef, isPinching, lastPinchDistRef, pinchStartRef,
                           blockTapRef, touchSessionRef, calibrationLine, isDrawing,
                           calibClocks, plotPoints, snapHint>>
       ELSE /\ isPinchingRef' = FALSE
            /\ isPinching' = FALSE
            /\ lastPinchDistRef' = Zero
            /\ pinchStartRef' = [distance |-> Zero, scale |-> stageScale,
                                 stagePos |-> stagePos, centerClient |-> Pt(0, 0)]
            /\ touchSessionRef' = [touchSessionRef EXCEPT !.active = FALSE]
            /\ blockTapRef' = FALSE
            /\ IF blockTapRef
               THEN /\ tapForwarded' = FALSE
                    /\ UNCHANGED <<calibrationLine, isDrawing, calibClocks,
                                   plotPoints, snapHint>>
               ELSE IF /\ touchSessionRef.active
                       /\ touchSessionRef.single
                       /\ ~touchSessionRef.moved
               THEN IF pinchWithinWindow \/ sinceTouchStart < TAP_MIN_MS
                    THEN /\ tapForwarded' = FALSE
                         /\ UNCHANGED <<calibrationLine, isDrawing, calibClocks,
                                        plotPoints, snapHint>>
                    ELSE /\ tapForwarded' = TRUE
                         /\ addPointerByPos(TapPos)
                         /\ snapHint' = FALSE
               ELSE /\ tapForwarded' = FALSE
                    /\ snapHint' = FALSE
                    /\ UNCHANGED <<calibrationLine, isDrawing, calibClocks,
                                   plotPoints>>
    /\ UNCHANGED <<scale, isPlotFinished>>
    /\ ResultsEffect(plotPoints' # plotPoints)
    /\ UNCHANGED <<fileVars, uiVars, reportImage, captureTimers, viewVars,
                   pinchRafRef, pinchLastStartRef, sinceTouchStart, wheelVars>>

----------------------------------------------------------------------------
(* Time.                                                                   *)

\* d ms pass
Tick(d) ==
    /\ sinceCalibClick' = Min(sinceCalibClick + d, CALIB_DEBOUNCE_MS)
    /\ sinceCalibDown' = Min(sinceCalibDown + d, CALIB_DEBOUNCE_MS)
    /\ sinceTouchStart' = Min(sinceTouchStart + d, TOUCH_CLOCK_CAP_MS)
    /\ UNCHANGED <<fileVars, uiVars, scale, calibrationLine, isDrawing,
                   plotVars, captureTimers, viewVars, wheelVars, touches, pinchVars,
                   blockTapRef, pinchLastStartRef, touchSessionRef,
                   pinchStarts, tapForwarded, fingerSession>>

----------------------------------------------------------------------------
(* The component working on one uploaded map, driven by mouse, buttons,     *)
(* the JSON load and the snapshot timer.                                   *)

Next ==
    \/ UploadFile
    \/ ImageReady
    \/ DrawScaleClick
    \/ ManualToggle
    \/ \E k \in 1..Len(NumberTexts) : ManualSubmit(NumberTexts[k])
    \/ ChangeClick
    \/ ConfirmClick
    \/ RedrawClick
    \/ CancelClick
    \/ \E k \in 1..Len(NumberTexts) : ModalSubmit(NumberTexts[k])
    \/ ModalClose
    \/ DrawPlotClick
    \/ FinishClick
    \/ CaptureFire
    \/ UndoClick
    \/ ClearClick
    \/ \E p \in ClickPoints : StageMouseDown(p)
    \/ \E p \in ClickPoints : StageMouseMove(p)
    \/ \E i \in 0..(MaxPts - 1), p \in DropPoints : PointDragEnd(i, p)
    \/ \E p \in PanPoints : StageDragEnd(p)
    \/ \E k \in 1..Len(LoadFiles) : LoadJSON(LoadFiles[k])
    \/ \E d \in TickSteps : Tick(d)

Spec == Init /\ [][Next]_vars

(* The map removed and replaced at any time.  The run starts with no map,  *)
(* or where SpecTouch arrives from its calibrating start by TouchStart of  *)
(* one finger, TouchMove of it to (6,8), TouchStart of a second finger,    *)
(* TouchMove of the first back to (0,0), TouchEnd of both and PinchFrame:  *)
(* a map with scale 2.5, zoomed out to 0.1.  The maps are calibrated,      *)
(* drawn on, finished and panned; polygons are not edited or loaded.       *)

\* where a dragged stage is dropped
FilePanPoints == {Pt(0, 0), Pt(3, 4)}
\* texts typed into the distance and manual-scale fields
FileTexts == << <<"a">>, <<"2", ".", "5">> >>
\* pointer positions of clicks on the stage, in screen pixels
FileClickPoints == {Pt(3, 4)}
\* pointer positions of moves over the stage
FileMovePoints == {Pt(0, 0)}

InitZoomed ==
    /\ image = TRUE
    /\ selectedFile = TRUE
    /\ decoding = 0
    /\ mode = "calibrating"
    /\ isModalOpen = FALSE
    /\ showManualScale = FALSE
    /\ scale = Rat(5, 2)
    /\ calibrationLine = <<>>
    /\ isDrawing = FALSE
    /\ plotPoints = <<>>
    /\ results = NULL
    /\ isPlotFinished = FALSE
    /\ reportImage = NULL
    /\ snapHint = FALSE
    /\ captureTimers = 0
    /\ stagePos = Pt(0, 0)
    /\ stageScale = Rat(1, 10)
    /\ sinceCalibClick = CALIB_DEBOUNCE_MS
    /\ sinceCalibDown = CALIB_DEBOUNCE_MS
    /\ touches = <<>>
    /\ isPinching = FALSE
    /\ isPinchingRef = FALSE
    /\ lastPinchDistRef = Zero
    /\ pinchStartRef = [distance |-> Zero, scale |-> FromInt(1),
                        stagePos |-> Pt(0, 0), centerClient |-> Pt(0, 0)]
    /\ pinchRafRef = NULL
    /\ blockTapRef = FALSE
    /\ pinchLastStartRef = 0
    /\ touchSessionRef = [active |-> FALSE, single |-> TRUE, moved |-> FALSE,
                          startClient |-> Pt(0, 0)]
    /\ sinceTouchStart = 0
    /\ pinchStarts = 1
    /\ tapForwarded = FALSE
    /\ fingerSession = "joined"
    /\ wheelAccumRef = 0
    /\ wheelRafRef = NULL

InitFiles ==
    \/ Init
    \/ InitZoomed

NextFiles ==
    \/ UploadFile
    \/ ImageReady
    \/ ImageFails
    \/ ClearFile
    \/ DrawScaleClick
    \/ ManualToggle
    \/ \E k \in 1..Len(FileTexts) : ManualSubmit(FileTexts[k])
    \/ ConfirmClick
    \/ \E k \in 1..Len(FileTexts) : ModalSubmit(FileTexts[k])
    \/ ModalClose
    \/ DrawPlotClick
    \/ FinishClick
    \/ CaptureFire
    \/ \E p \in FileClickPoints : StageMouseDown(p)
    \/ \E p \in FileMovePoints : StageMouseMove(p)
    \/ \E p \in FilePanPoints : StageDragEnd(p)
    \/ \E d \in TickSteps : Tick(d)

SpecFiles == InitFiles /\ [][NextFiles]_vars

(* Fingers on the stage.  The run starts where Spec arrives by UploadFile, *)
(* ImageReady, ManualToggle, ManualSubmit of "2.5" and then DrawScaleClick *)
(* or DrawPlotClick.                                                       *)

InitTouch ==
    /\ image = TRUE
    /\ selectedFile = TRUE
    /\ decoding = 0
    /\ mode \in {"calibrating", "drawing_plot"}
    /\ isModalOpen = FALSE
    /\ showManualScale = FALSE
    /\ scale = Rat(5, 2)
    /\ calibrationLine = <<>>
    /\ isDrawing = FALSE
    /\ plotPoints = <<>>
    /\ results = NULL
    /\ isPlotFinished = FALSE
    /\ reportImage = NULL
    /\ snapHint = FALSE
    /\ captureTimers = 0
    /\ stagePos = Pt(0, 0)
    /\ stageScale = FromInt(1)
    /\ sinceCalibClick = CALIB_DEBOUNCE_MS
    /\ sinceCalibDown = CALIB_DEBOUNCE_MS
    /\ touches = <<>>
    /\ isPinching = FALSE
    /\ isPinchingRef = FALSE
    /\ lastPinchDistRef = Zero
    /\ pinchStartRef = [distance |-> Zero, scale |-> FromInt(1),
                        stagePos |-> Pt(0, 0), centerClient |-> Pt(0, 0)]
    /\ pinchRafRef = NULL
    /\ blockTapRef = FALSE
    /\ pinchLastStartRef = -1
    /\ touchSessionRef = [active |-> FALSE, single |-> TRUE, moved |-> FALSE,
                          startClient |-> Pt(0, 0)]
    /\ sinceTouchStart = TOUCH_CLOCK_CAP_MS
    /\ pinchStarts = 0
    /\ tapForwarded = FALSE
    /\ fingerSession = "none"
    /\ wheelAccumRef = 0
    /\ wheelRafRef = NULL

NextTouch ==
    \/ \E new \in SeqsOf(LandPoints, 1..2) : TouchStart(new)
    \/ \E i \in 1..MaxFingers, p \in TouchPoints : TouchMove(i, p)
    \/ \E lifted \in SUBSET (1..MaxFingers) : TouchEnd(lifted)
    \/ PinchFrame
    \/ \E d \in TouchTickSteps : Tick(d)

SpecTouch == InitTouch /\ [][NextTouch]_vars

(* The distance modal over a confirmed calibration line.  The run starts  *)
(* where the component arrives by UploadFile, ImageReady, DrawScaleClick,  *)
(* a click at (x1,y1), a click or a pointer move at (x2,y2) and            *)
(* ConfirmClick.                                                           *)

\* the coordinates of the end points of the line
ModalCoords == {0, 3, 4, 330}
\* texts typed into the distance field
ModalTexts == << <<>>, <<"0">>, <<"-", "5">>, <<"2", ".", "5">>, <<"1", "1", "0">> >>

InitModal ==
    /\ image = TRUE
    /\ selectedFile = TRUE
    /\ decoding = 0
    /\ mode = "none"
    /\ isModalOpen = TRUE
    /\ showManualScale = FALSE
    /\ scale = NULL
    /\ calibrationLine \in {<<FromInt(x1), FromInt(y1), FromInt(x2), FromInt(y2)>> :
                               x1 \in ModalCoords, y1 \in ModalCoords,
                               x2 \in ModalCoords, y2 \in ModalCoords}
    /\ isDrawing = FALSE
    /\ plotPoints = <<>>
    /\ results = NULL
    /\ isPlotFinished = FALSE
    /\ reportImage = NULL
    /\ snapHint = FALSE
    /\ captureTimers = 0
    /\ stagePos = Pt(0, 0)
    /\ stageScale = FromInt(1)
    /\ sinceCalibClick = CALIB_DEBOUNCE_MS
    /\ sinceCalibDown = CALIB_DEBOUNCE_MS
    /\ touches = <<>>
    /\ isPinching = FALSE
    /\ isPinchingRef = FALSE
    /\ lastPinchDistRef = Zero
    /\ pinchStartRef = [distance |-> Zero, scale |-> FromInt(1),
                        stagePos |-> Pt(0, 0), centerClient |-> Pt(0, 0)]
    /\ pinchRafRef = NULL
    /\ blockTapRef = FALSE
    /\ pinchLastStartRef = -1
    /\ touchSessionRef = [active |-> FALSE, single |-> TRUE, moved |-> FALSE,
                          startClient |-> Pt(0, 0)]
    /\ sinceTouchStart = TOUCH_CLOCK_CAP_MS
    /\ pinchStarts = 0
    /\ tapForwarded = FALSE
    /\ fingerSession = "none"
    /\ wheelAccumRef = 0
    /\ wheelRafRef = NULL

NextModal ==
    \/ \E k \in 1..Len(ModalTexts) : ModalSubmit(ModalTexts[k])
    \/ ModalClose

SpecModal == InitModal /\ [][NextModal]_vars

(* The measurement of a polygon.  The run starts where the component      *)
(* arrives by UploadFile, ImageReady and LoadJSON of a file holding the    *)
(* scale and the vertices; Finish computes the results.                    *)

\* the coordinates of the vertices
CalcCoords == {0, 10}
\* the numbers of vertices
CalcSizes == {3, 4}
\* the scales, in pixels per foot
CalcScales == {FromInt(1), Rat(5, 2)}

InitCalc ==
    /\ image = TRUE
    /\ selectedFile = TRUE
    /\ decoding = 0
    /\ mode = "drawing_plot"
    /\ isModalOpen = FALSE
    /\ showManualScale = FALSE
    /\ scale \in CalcScales
    /\ calibrationLine = <<>>
    /\ isDrawing = FALSE
    /\ plotPoints \in SeqsOf({Pt(x, y) : x \in CalcCoords, y \in CalcCoords}, CalcSizes)
    /\ results = NULL
    /\ isPlotFinished = FALSE
    /\ reportImage = NULL
    /\ snapHint = FALSE
    /\ captureTimers = 0
    /\ stagePos = Pt(0, 0)
    /\ stageScale = FromInt(1)
    /\ sinceCalibClick = CALIB_DEBOUNCE_MS
    /\ sinceCalibDown = CALIB_DEBOUNCE_MS
    /\ touches = <<>>
    /\ isPinching = FALSE
    /\ isPinchingRef = FALSE
    /\ lastPinchDistRef = Zero
    /\ pinchStartRef = [distance |-> Zero, scale |-> FromInt(1),
                        stagePos |-> Pt(0, 0), centerClient |-> Pt(0, 0)]
    /\ pinchRafRef = NULL
    /\ blockTapRef = FALSE
    /\ pinchLastStartRef = -1
    /\ touchSessionRef = [active |-> FALSE, single |-> TRUE, moved |-> FALSE,
                          startClient |-> Pt(0, 0)]
    /\ sinceTouchStart = TOUCH_CLOCK_CAP_MS
    /\ pinchStarts = 0
    /\ tapForwarded = FALSE
    /\ fingerSession = "none"
    /\ wheelAccumRef = 0
    /\ wheelRafRef = NULL

NextCalc ==
    \/ FinishClick
    \/ CaptureFire

SpecCalc == InitCalc /\ [][NextCalc]_vars

----------------------------------------------------------------------------
(* Properties.                                                             *)

\* C1: in every reachable state the scale is null or a finite number
\* strictly greater than 0.
C1_ScaleNullOrPositive == scale = NULL \/ (~IsNaN(scale) /\ Lt(Zero, scale))

\* C2: a step that starts calibration mode (the draw-scale button or the
\* Change link) while the polygon has vertices leaves plotPoints empty, the
\* finished flag false and results null.
C2_StartCalibrationClearsPolygon ==
    [][((DrawScaleClick \/ ChangeClick) /\ Len(plotPoints) > 0)
          => (plotPoints' = <<>> /\ ~isPlotFinished' /\ results' = NULL)]_vars

\* C3: the draw-plot button leaves plotPoints empty, results null, the
\* finished flag false, the calibration line empty and live-tracking off,
\* whatever the mode was before.
C3_DrawPlotClearsEverything ==
    [][DrawPlotClick
          => /\ plotPoints' = <<>>
             /\ results' = NULL
             /\ ~isPlotFinished'
             /\ calibrationLine' = <<>>
             /\ ~isDrawing']_vars

\* C4: whenever the mode is drawing_plot a scale is set.
C4_DrawingHasScale == mode = "drawing_plot" => scale # NULL

\* C5: results are non-null only if the polygon is finished, a scale is set
\* and plotPoints has at least 3 vertices.
C5_ResultsOnlyWhenFinished ==
    results # NULL => (isPlotFinished /\ scale # NULL /\ Len(plotPoints) >= 3)

\* a finished polygon with results
C5_Witness == results # NULL /\ isPlotFinished /\ Len(plotPoints) = 3

\* the Euclidean distance of two points is at most d
C6_Within(p, q, d) ==
    LET dx == Sub(p.x, q.x)
        dy == Sub(p.y, q.y)
    IN  Le(Add(Mul(dx, dx), Mul(dy, dy)), FromInt(d * d))

\* the world position of a pointer at screen point p
C6_World(p) ==
    [x |-> Div(Sub(p.x, stagePos.x), stageScale),
     y |-> Div(Sub(p.y, stagePos.y), stageScale)]

\* C6: while drawing with at least one vertex, a pointer-down within
\* distance 5 of vertex 0 appends a vertex equal to vertex 0, a pointer-down
\* farther away appends the clicked position; the earlier vertices stay.
C6_SnapOrClickedAppended ==
    [][\A p \in ClickPoints :
          (StageMouseDown(p) /\ mode = "drawing_plot" /\ Len(plotPoints) >= 1)
             => plotPoints' = Append(plotPoints,
                                     IF C6_Within(C6_World(p), plotPoints[1], 5)
                                     THEN plotPoints[1]
                                     ELSE C6_World(p))]_vars

\* a vertex at distance 5 of vertex 0 was snapped, and one at distance
\* sqrt(97) of vertex 0 was kept
C6_Witness ==
    /\ mode = "drawing_plot"
    /\ Len(plotPoints) = 3
    /\ plotPoints[1] = Pt(12, 0)
    /\ plotPoints[3] = Pt(3, 4)

\* the file is not an object with an array plotPoints whose elements all
\* have a numeric x and a numeric y
C7_FailsValidation(obj) ==
    \/ obj.t # "object"
    \/ "plotPoints" \notin DOMAIN obj.v
    \/ obj.v.plotPoints.t # "array"
    \/ \E i \in 1..Len(obj.v.plotPoints.v) :
          LET e == obj.v.plotPoints.v[i]
          IN  \/ e.t # "object"
              \/ "x" \notin DOMAIN e.v
              \/ "y" \notin DOMAIN e.v
              \/ e.v.x.t # "number"
              \/ e.v.y.t # "number"

\* C7: a JSON load that fails validation leaves scale, plotPoints, mode, the
\* finished flag, results and the calibration line as they were.
C7_FailedLoadChangesNothing ==
    [][\A k \in 1..Len(LoadFiles) :
          (C7_FailsValidation(LoadFiles[k]) /\ LoadJSON(LoadFiles[k]))
             => UNCHANGED <<scale, plotPoints, mode, isPlotFinished, results,
                            calibrationLine>>]_vars

\* a rejected load is possible on a finished polygon beside a calibration
\* line: there is state to lose
C7_Witness ==
    /\ image
    /\ ~isModalOpen
    /\ isPlotFinished
    /\ results # NULL
    /\ Len(calibrationLine) = 4

\* the file has a scale field that is not a positive number
C8_BadScale(obj) ==
    /\ obj.t = "object"
    /\ "scale" \in DOMAIN obj.v
    /\ ~(obj.v.scale.t = "number" /\ Lt(Zero, obj.v.scale.v))

\* C8: a JSON load of a file whose scale field is present but not a positive
\* number changes no state.
C8_BadScaleRejected ==
    [][\A k \in 1..Len(LoadFiles) :
          (C8_BadScale(LoadFiles[k]) /\ LoadJSON(LoadFiles[k]))
             => UNCHANGED vars]_vars

\* the file is well formed: it passes the validation of C7 and its scale,
\* if it has one, is a positive number
C9_WellFormed(obj) == ~C7_FailsValidation(obj) /\ ~C8_BadScale(obj)

\* the vertices written in a well-formed file
C9_Vertices(obj) ==
    [i \in 1..Len(obj.v.plotPoints.v) |->
        [x |-> obj.v.plotPoints.v[i].v.x.v, y |-> obj.v.plotPoints.v[i].v.y.v]]

\* C9: a load of a well-formed file replaces plotPoints by the file's
\* vertices, overwrites scale only if the file has one, sets the mode to
\* drawing_plot, the finished flag to false, the calibration line to empty
\* and results to null; results stay null while the polygon is not finished,
\* and only the Finish button finishes it.
C9_LoadReplacesPolygon ==
    [][/\ \A k \in 1..Len(LoadFiles) :
             (C9_WellFormed(LoadFiles[k]) /\ LoadJSON(LoadFiles[k]))
                => /\ plotPoints' = C9_Vertices(LoadFiles[k])
                   /\ scale' = IF "scale" \in DOMAIN LoadFiles[k].v
                               THEN LoadFiles[k].v.scale.v
                               ELSE scale
                   /\ mode' = "drawing_plot"
                   /\ ~isPlotFinished'
                   /\ calibrationLine' = <<>>
                   /\ results' = NULL
       /\ ~isPlotFinished' => results' = NULL
       /\ (~isPlotFinished /\ isPlotFinished') => FinishClick]_vars

\* a file was loaded over a polygon that had been finished and captured
C9_Witness ==
    /\ mode = "drawing_plot"
    /\ plotPoints = <<Pt(12, 0), Pt(0, 0)>>
    /\ scale = FromInt(2)
    /\ results = NULL
    /\ reportImage # NULL

\* C10: in a one-finger touch session that more fingers joined, no lifting
\* of fingers forwards a pointer-down: addPointerByPos is not called, no
\* vertex is appended and the calibration line is not changed.
C10_NoTapAfterSecondFinger ==
    [][(fingerSession = "joined" /\ Len(touches') < Len(touches))
          => /\ ~tapForwarded'
             /\ plotPoints' = plotPoints
             /\ calibrationLine' = calibrationLine]_vars

\* the one finger of a single-finger session is, at its release, farther
\* than 6 pixels from where it landed
C11_MovedBeyondTap ==
    /\ fingerSession = "single"
    /\ Len(touches) = 1
    /\ Lt(FromInt(6), Hypot(Sub(touches[1].x, touchSessionRef.startClient.x),
                            Sub(touches[1].y, touchSessionRef.startClient.y)))

\* C11: the release of a single finger that moved more than 6 pixels from
\* its touch-start position forwards no pointer-down and changes neither
\* plotPoints nor the calibration line, in every mode.
C11_MovedTouchIsNoTap ==
    [][(C11_MovedBeyondTap /\ Len(touches') = 0)
          => /\ ~tapForwarded'
             /\ plotPoints' = plotPoints
             /\ calibrationLine' = calibrationLine]_vars

\* C12: every completed decode (img.onload) leaves scale null, plotPoints
\* empty, results and the report image null, the calibration line empty,
\* the finished flag false, the mode none, the pan offset (0,0) and the
\* zoom 1, whatever the state was when the decode completed.
C12_ImageReadyResetsAll ==
    [][ImageReady
          => /\ scale' = NULL
             /\ plotPoints' = <<>>
             /\ results' = NULL
             /\ reportImage' = NULL
             /\ calibrationLine' = <<>>
             /\ ~isPlotFinished'
             /\ mode' = "none"
             /\ stagePos' = [x |-> <<0, 1, 1>>, y |-> <<0, 1, 1>>]
             /\ stageScale' = <<1, 1, 1>>]_vars

\* a decode completed while the distance modal was open over an earlier
\* map's calibration: the modal is the only trace left of it
C12_Witness ==
    /\ image
    /\ isModalOpen
    /\ mode = "none"
    /\ scale = NULL
    /\ calibrationLine = <<>>
    /\ plotPoints = <<>>

\* the distance a text of the field stands for, for the texts that are a
\* finite number greater than 0
C13_Distances ==
    { [text |-> <<"2", ".", "5">>, value |-> <<5, 2, 1>>],
      [text |-> <<"1", "1", "0">>, value |-> <<110, 1, 1>>] }

\* the Euclidean length of the line <<x1, y1, x2, y2>>
C13_Length(line) ==
    LET dx == Sub(line[3], line[1])
        dy == Sub(line[4], line[2])
    IN  Sqrt(Add(Mul(dx, dx), Mul(dy, dy)))

\* C13: a submission of a finite distance greater than 0 in the modal sets
\* the scale to the Euclidean pixel length of the confirmed line divided by
\* that distance, empties the calibration line and closes the modal; a
\* line of length 330 and the distance 110 give the scale 3.
C13_ModalSubmitSetsScale ==
    [][/\ \A e \in C13_Distances :
             (ModalSubmit(e.text) /\ Len(calibrationLine) = 4)
                => /\ scale' = Div(C13_Length(calibrationLine), e.value)
                   /\ calibrationLine' = <<>>
                   /\ ~isModalOpen'
       /\ (/\ ModalSubmit(<<"1", "1", "0">>)
           /\ calibrationLine = <<FromInt(0), FromInt(0), FromInt(330), FromInt(0)>>)
             => scale' = <<3, 1, 1>>]_vars

\* the scale 3 was set by a submission that closed the modal
C13_Witness ==
    /\ scale = <<3, 1, 1>>
    /\ ~isModalOpen
    /\ calibrationLine = <<>>

\* the texts of a field that are not a number greater than 0
C14_RejectedTexts == { <<>>, <<"a">>, <<"0">>, <<"-", "5">> }

\* C14: a submission of a non-numeric or non-positive text in the distance
\* modal or in the manual-scale form changes neither scale, mode, the
\* calibration line, plotPoints nor results, and the modal (the form)
\* stays open.
C14_RejectedEntryChangesNothing ==
    [][\A t \in C14_RejectedTexts :
          (ModalSubmit(t) \/ ManualSubmit(t))
             => UNCHANGED <<scale, mode, calibrationLine, plotPoints, results,
                            isModalOpen, showManualScale>>]_vars

\* the modal is open over a confirmed line while a finished polygon has
\* results: a rejected text has state to spoil
C14_Witness ==
    /\ isModalOpen
    /\ Len(calibrationLine) = 4
    /\ scale # NULL
    /\ results # NULL

\* the vertex list in reverse
C15_Reversed(points) == [i \in 1..Len(points) |-> points[Len(points) + 1 - i]]

\* vertex (i + 1) mod n, for the 1-based i
C15_After(points, i) == IF i = Len(points) THEN points[1] ELSE points[i + 1]

RECURSIVE C15_CrossSum(_, _)
\* the sum of x_i*y_(i+1) - x_(i+1)*y_i over the first k vertices
C15_CrossSum(points, k) ==
    IF k = 0 THEN <<0, 1, 1>>
    ELSE Add(C15_CrossSum(points, k - 1),
             Sub(Mul(points[k].x, C15_After(points, k).y),
                 Mul(C15_After(points, k).x, points[k].y)))

\* |sum| / 2 / scale^2
C15_Sqft(points, sc) ==
    LET sum == C15_CrossSum(points, Len(points))
        half == Div(IF Lt(sum, <<0, 1, 1>>) THEN Neg(sum) ELSE sum, <<2, 1, 1>>)
    IN  Div(Div(half, sc), sc)

\* the distance from vertex i to the vertex after it, divided by the scale
C15_Side(points, sc, i) ==
    LET dx == Sub(C15_After(points, i).x, points[i].x)
        dy == Sub(C15_After(points, i).y, points[i].y)
    IN  Div(Sqrt(Add(Mul(dx, dx), Mul(dy, dy))), sc)

\* C15: for n >= 3 vertices and a scale > 0 the results hold sqft =
\* |shoelace sum| / 2 / scale^2, the same for the reversed vertex order
\* (100 for the 10x10 square at scale 1), shotok = sqft / 435.6, katha =
\* sqft / 720 and n lengths, the i-th the distance from vertex i to vertex
\* (i + 1) mod n divided by the scale, the last the closing edge.
C15_ResultsAreShoelace ==
    results # NULL =>
        LET r == results[1]
            n == Len(plotPoints)
        IN  /\ r.sqft = C15_Sqft(plotPoints, scale)
            /\ r.sqft = C15_Sqft(C15_Reversed(plotPoints), scale)
            /\ r.shotok = Div(r.sqft, <<2178, 5, 1>>)
            /\ r.katha = Div(r.sqft, <<720, 1, 1>>)
            /\ Len(r.lengths) = n
            /\ \A i \in 1..n : r.lengths[i] = C15_Side(plotPoints, scale, i)
            /\ (/\ scale = <<1, 1, 1>>
                /\ plotPoints \in {<<Pt(0, 0), Pt(10, 0), Pt(10, 10), Pt(0, 10)>>,
                                   <<Pt(0, 10), Pt(10, 10), Pt(10, 0), Pt(0, 0)>>})
                  => /\ r.sqft = <<100, 1, 1>>
                     /\ r.lengths = <<FromInt(10), FromInt(10), FromInt(10), FromInt(10)>>

\* the 10x10 square, traversed from (0,10) backwards, was measured at
\* scale 1
C15_Witness ==
    /\ results # NULL
    /\ scale = <<1, 1, 1>>
    /\ plotPoints = <<Pt(0, 10), Pt(10, 10), Pt(10, 0), Pt(0, 0)>>

\* the perimeter shown for the results, or NULL
C16_ReportedPerimeter ==
    IF results = NULL THEN NULL ELSE perimeter(results[1].lengths)

RECURSIVE C16_RingLength(_, _, _)
\* the sum of the first k side lengths of the closed ring
C16_RingLength(points, sc, k) ==
    IF k = 0 THEN <<0, 1, 1>>
    ELSE Add(C16_RingLength(points, sc, k - 1), C15_Side(points, sc, k))

\* every side of the ring has a rational length
C16_RationalSides ==
    \A i \in 1..Len(plotPoints) : C15_Side(plotPoints, scale, i)[3] = 1

\* C16: the perimeter shown for a finished polygon is the sum of all n side
\* lengths of the closed ring, the closing edge included (stated for the
\* polygons whose side lengths are all rational, such as the 10x10 square
\* with the perimeter 40 at scale 1).
C16_PerimeterIsRingLength ==
    (results # NULL /\ C16_RationalSides) =>
        C16_ReportedPerimeter = C16_RingLength(plotPoints, scale, Len(plotPoints))

\* C17: whenever the polygon is finished plotPoints has at least 3
\* vertices; a polygon of fewer than 3 vertices is not finished by any
\* step, and no step taken while finished brings the count below 3
\* without leaving the finished state.
C17_FinishedHasThreeVertices ==
    /\ [](isPlotFinished => Len(plotPoints) >= 3)
    /\ [][/\ (~isPlotFinished /\ Len(plotPoints) < 3) => ~isPlotFinished'
          /\ (isPlotFinished /\ Len(plotPoints') < 3) => ~isPlotFinished']_vars

\* the manual-scale form is open over a finished polygon
C17_Witness ==
    /\ isPlotFinished
    /\ Len(plotPoints) = 3
    /\ mode = "manual_scale"
    /\ showManualScale

\* C18: whenever the polygon is finished, after each handler and the
\* effects it triggers, results is calculatePolygonData of the current
\* plotPoints and the current scale.
C18_ResultsAreCurrent ==
    isPlotFinished => results = calculatePolygonData(plotPoints, scale)

\* a finished triangle measured at the scale 2: 24 square pixels are 6
\* square feet
C18_Witness ==
    /\ isPlotFinished
    /\ plotPoints = <<Pt(0, 0), Pt(12, 0), Pt(3, 4)>>
    /\ scale = <<2, 1, 1>>
    /\ results # NULL
    /\ results[1].sqft = <<6, 1, 1>>

\* C19: starting a recalibration, by the draw-scale button or the Change
\* link while a scale is set, resets the scale to null.
C19_RecalibrationResetsScale ==
    [][((DrawScaleClick \/ ChangeClick) /\ scale # NULL) => scale' = NULL]_vars

\* C20: a step that leaves the calibrating mode, other than Confirm handing
\* the line to the modal, empties the calibration line and stops the live
\* tracking; a step that leaves the drawing mode with an unfinished
\* polygon, other than Finish, empties plotPoints.
C20_LeavingModeResetsIt ==
    [][/\ (mode = "calibrating" /\ mode' # "calibrating" /\ ~ConfirmClick)
             => (calibrationLine' = <<>> /\ ~isDrawing')
       /\ (mode = "drawing_plot" /\ ~isPlotFinished /\ mode' # "drawing_plot"
              /\ ~FinishClick)
             => plotPoints' = <<>>]_vars

\* C21: while the polygon is as a clear leaves it (no vertices, not
\* finished) and no report image is held, no step makes a report image
\* appear: a snapshot still pending from an earlier Finish does not bring
\* it back.
C21_NoCaptureAfterClear ==
    [][(plotPoints = <<>> /\ ~isPlotFinished /\ reportImage = NULL)
          => (reportImage' = NULL \/ isPlotFinished')]_vars

-----------------------------------------------------------------------------
(* Wheel zoom, lines 425-449.                                              *)

\* the deltaY values of the wheel events
WheelDeltas == {-4000, 0, 4000}
\* the pointer positions of the wheel events, in container coordinates
WheelPoints == {Pt(3, 4)}
\* how many non-zero wheel events one frame may gather
MaxWheels == 1

\* Math.pow(1.0015, -delta) of line 443, on the sums of WheelDeltas.  A sum
\* of 0 gives exactly 1.  1.0015^4000 is about 401.6, so for a sum of -4000
\* or below the power exceeds 400 and for 4000 or above it is below 1/400;
\* the bound stands for the power: for every oldScale from 1/40 to 40 the
\* clamp of line 444 takes both to the same limit.
WheelFactor(delta) ==
    CASE delta = 0 -> FromInt(1)
      [] delta <= -4000 -> FromInt(400)
      [] delta >= 4000 -> Rat(1, 400)

\* handleWheel up to the requestAnimationFrame call, lines 425-438: the
\* callback closes over oldScale, pointer and mousePointTo of the event that
\* scheduled it
Wheel(deltaY, pointer) ==
    /\ Reachable
    /\ AbsI(wheelAccumRef + deltaY) <= 4000 * MaxWheels
    /\ wheelAccumRef' = wheelAccumRef + deltaY
    /\ wheelRafRef' =
          IF wheelRafRef = NULL
          THEN <<[oldScale |-> stageScale, pointer |-> pointer,
                  mousePointTo |-> [x |-> Div(Sub(pointer.x, stagePos.x), stageScale),
                                    y |-> Div(Sub(pointer.y, stagePos.y), stageScale)]]>>
          ELSE wheelRafRef
    /\ UNCHANGED <<fileVars, uiVars, scaleVars, plotVars, captureTimers, viewVars,
                   touchVars>>

\* the frame callback of lines 438-447
WheelFrame ==
    /\ wheelRafRef # NULL
    /\ wheelRafRef' = NULL
    /\ wheelAccumRef' = 0
    /\ LET job == wheelRafRef[1]
           delta == wheelAccumRef
           factor == WheelFactor(delta)
           newScale == clamp(Mul(job.oldScale, factor), Rat(1, 10), FromInt(10))
       IN  /\ stageScale' = newScale
           /\ stagePos' = [x |-> Sub(job.pointer.x, Mul(job.mousePointTo.x, newScale)),
                           y |-> Sub(job.pointer.y, Mul(job.mousePointTo.y, newScale))]
    /\ UNCHANGED <<fileVars, uiVars, scaleVars, plotVars, captureTimers, touchVars>>

(* The viewport.  The run starts where Spec arrives by UploadFile,         *)
(* ImageReady, LoadJSON of the file with scale 2.5 and the triangle,       *)
(* FinishClick, CaptureFire, ClearFile and UploadFile: a finished polygon  *)
(* on the stage and the decode of the next image under way.                *)

\* where the first finger moves to
ViewTouchPoints == {Pt(1, 0), Pt(50, 0)}
\* the vertices of the finished polygon
ViewPolygon == <<Pt(0, 0), Pt(12, 0), Pt(3, 4)>>

\* onTouchStart, lines 810-840, of one more finger while at most one is on
\* the stage
FingerDown(p) ==
    /\ Len(touches) < 2
    /\ TouchStart(<<p>>)

InitView ==
    /\ image = FALSE
    /\ selectedFile = TRUE
    /\ decoding = 1
    /\ mode = "none"
    /\ isModalOpen = FALSE
    /\ showManualScale = FALSE
    /\ scale = Rat(5, 2)
    /\ calibrationLine = <<>>
    /\ isDrawing = FALSE
    /\ plotPoints = ViewPolygon
    /\ results = calculatePolygonData(ViewPolygon, Rat(5, 2))
    /\ isPlotFinished = TRUE
    /\ reportImage = <<"dataURL">>
    /\ snapHint = FALSE
    /\ captureTimers = 0
    /\ stagePos = Pt(0, 0)
    /\ stageScale = FromInt(1)
    /\ sinceCalibClick = CALIB_DEBOUNCE_MS
    /\ sinceCalibDown = CALIB_DEBOUNCE_MS
    /\ touches = <<>>
    /\ isPinching = FALSE
    /\ isPinchingRef = FALSE
    /\ lastPinchDistRef = Zero
    /\ pinchStartRef = [distance |-> Zero, scale |-> FromInt(1),
                        stagePos |-> Pt(0, 0), centerClient |-> Pt(0, 0)]
    /\ pinchRafRef = NULL
    /\ blockTapRef = FALSE
    /\ pinchLastStartRef = -1
    /\ touchSessionRef = [active |-> FALSE, single |-> TRUE, moved |-> FALSE,
                          startClient |-> Pt(0, 0)]
    /\ sinceTouchStart = TOUCH_CLOCK_CAP_MS
    /\ pinchStarts = 0
    /\ tapForwarded = FALSE
    /\ fingerSession = "none"
    /\ wheelAccumRef = 0
    /\ wheelRafRef = NULL

NextView ==
    \/ \E deltaY \in WheelDeltas, pointer \in WheelPoints : Wheel(deltaY, pointer)
    \/ WheelFrame
    \/ \E p \in LandPoints : FingerDown(p)
    \/ \E p \in ViewTouchPoints : TouchMove(1, p)
    \/ \E lifted \in SUBSET (1..2) : TouchEnd(lifted)
    \/ PinchFrame
    \/ ImageReady

SpecView == InitView /\ [][NextView]_vars

\* C22: in every state the zoom factor is a number from 0.1 to 10, and a
\* pinch frame whose snapshot holds zoom 1 and whose finger distance is 50
\* times the start distance sets the zoom to exactly 10.
C22_ZoomInRange ==
    /\ ~IsNaN(stageScale)
    /\ Le(Rat(1, 10), stageScale)
    /\ Le(stageScale, FromInt(10))

C22_PinchFiftyfold ==
    /\ pinchRafRef # NULL
    /\ pinchRafRef[1].start.scale = FromInt(1)
    /\ Lt(Zero, pinchRafRef[1].start.distance)
    /\ pinchRafRef[1].newDist = Mul(FromInt(50), pinchRafRef[1].start.distance)

C22_ZoomClamped ==
    /\ [](C22_ZoomInRange)
    /\ [][(C22_PinchFiftyfold /\ PinchFrame) => stageScale' = FromInt(10)]_vars

\* the frame of a fiftyfold pinch from zoom 1 has run
C22_Witness ==
    /\ stageScale = FromInt(10)
    /\ isPinchingRef
    /\ pinchStartRef.scale = FromInt(1)
    /\ Lt(Zero, pinchStartRef.distance)
    /\ lastPinchDistRef = Mul(FromInt(50), pinchStartRef.distance)
    /\ pinchRafRef = NULL
    /\ wheelRafRef = NULL

\* C23: in every state the calibration line holds 0, 2 or 4 coordinates.
C23_LineLengths == Len(calibrationLine) \in {0, 2, 4}

\* during a recalibration the first point is placed, the pointer has moved
\* and the live tracking goes on
C23_Witness ==
    /\ mode = "calibrating"
    /\ Len(calibrationLine) = 4
    /\ isDrawing
    /\ scale # NULL

-----------------------------------------------------------------------------
(* Drags on a finished polygon.  The run starts where Spec arrives by      *)
(* UploadFile, ImageReady, LoadJSON of the file with scale 2.5 and the     *)
(* triangle, FinishClick and CaptureFire.                                  *)

\* where a vertex is dropped, in layer coordinates: at distance 5 of the
\* origin and beyond it
DragDropPoints == {Pt(3, 4), Pt(4, 4)}
\* where the stage is dropped after a pan
DragPanPoints == {Pt(0, 0), Pt(3, 4)}

InitDrag ==
    /\ image = TRUE
    /\ selectedFile = TRUE
    /\ decoding = 0
    /\ mode = "none"
    /\ isModalOpen = FALSE
    /\ showManualScale = FALSE
    /\ scale = Rat(5, 2)
    /\ calibrationLine = <<>>
    /\ isDrawing = FALSE
    /\ plotPoints = ViewPolygon
    /\ results = calculatePolygonData(ViewPolygon, Rat(5, 2))
    /\ isPlotFinished = TRUE
    /\ reportImage = <<"dataURL">>
    /\ snapHint = FALSE
    /\ captureTimers = 0
    /\ stagePos = Pt(0, 0)
    /\ stageScale = FromInt(1)
    /\ sinceCalibClick = CALIB_DEBOUNCE_MS
    /\ sinceCalibDown = CALIB_DEBOUNCE_MS
    /\ touches = <<>>
    /\ isPinching = FALSE
    /\ isPinchingRef = FALSE
    /\ lastPinchDistRef = Zero
    /\ pinchStartRef = [distance |-> Zero, scale |-> FromInt(1),
                        stagePos |-> Pt(0, 0), centerClient |-> Pt(0, 0)]
    /\ pinchRafRef = NULL
    /\ blockTapRef = FALSE
    /\ pinchLastStartRef = -1
    /\ touchSessionRef = [active |-> FALSE, single |-> TRUE, moved |-> FALSE,
                          startClient |-> Pt(0, 0)]
    /\ sinceTouchStart = TOUCH_CLOCK_CAP_MS
    /\ pinchStarts = 0
    /\ tapForwarded = FALSE
    /\ fingerSession = "none"
    /\ wheelAccumRef = 0
    /\ wheelRafRef = NULL

NextDrag ==
    \/ \E index \in 0..(MaxPts - 1), pos \in DragDropPoints : PointDragEnd(index, pos)
    \/ \E pos \in DragPanPoints : StageDragEnd(pos)
    \/ DrawPlotClick
    \/ \E p \in ClickPoints : StageMouseDown(p)
    \/ FinishClick
    \/ CaptureFire
    \/ DrawScaleClick
    \/ CancelClick
    \/ \E d \in TickSteps : Tick(d)

SpecDrag == InitDrag /\ [][NextDrag]_vars

\* C24: a step that changes the pan offset or the zoom is a wheel frame, a
\* pinch frame, the end of a drag of the stage, or the reset of an image
\* load.
C24_ViewportWriters ==
    [][(stagePos' # stagePos \/ stageScale' # stageScale)
          => \/ WheelFrame
             \/ PinchFrame
             \/ ImageReady
             \/ \E pos \in DragPanPoints : StageDragEnd(pos)]_vars

\* C25: Confirm opens the distance modal only when the live tracking is
\* off, that is after a second pointer-down committed the second endpoint.
C25_ConfirmOnlyCommitted ==
    [][ConfirmClick => ~isDrawing]_vars

\* C26: in calibrating mode with the first point placed and the live
\* tracking on, a tap closer than 1e-3 to the first point leaves the
\* calibration line and the live tracking as they were.
C26_TapOnFirstPoint ==
    /\ mode = "calibrating"
    /\ Len(calibrationLine) >= 2
    /\ Lt(Hypot(Sub(TapPos.x, calibrationLine[1]), Sub(TapPos.y, calibrationLine[2])),
          Rat(1, 1000))

C26_TinyLineIgnored ==
    [][(C26_TapOnFirstPoint /\ isDrawing /\ tapForwarded')
          => UNCHANGED <<calibrationLine, isDrawing>>]_vars

\* a tap on the first point has just passed the debounce and the line,
\* live-tracked before, is still tracked
C26_Witness ==
    /\ C26_TapOnFirstPoint
    /\ tapForwarded
    /\ sinceCalibClick = 0
    /\ Len(calibrationLine) = 4
    /\ isDrawing

\* C27 as stated: a calibration pointer-down less than 250 ms after the
\* last pointer-down that set the calibration line changes neither the line
\* nor the live tracking.
C27_NoTwoWithinGap ==
    [][\A p \in ClickPoints :
          (mode = "calibrating" /\ sinceCalibDown < 250 /\ StageMouseDown(p))
             => UNCHANGED <<calibrationLine, isDrawing>>]_vars

\* C27, amended: while a first point is on the stage, a calibration
\* pointer-down less than 250 ms after the last pointer-down that set the
\* line changes neither the line nor the live tracking, so the
\* pointer-downs that place the two endpoints of a line are at least 250 ms
\* apart.
C27_NoTwoWithinGapOnALine ==
    [][\A p \in ClickPoints :
          (mode = "calibrating" /\ sinceCalibDown < 250 /\ StageMouseDown(p)
              /\ Len(calibrationLine) >= 2)
             => UNCHANGED <<calibrationLine, isDrawing>>]_vars

\* the first point was placed less than 250 ms ago and the pointer has
\* moved away from it: a pointer-down at this moment is one the debounce
\* drops
C27_Witness ==
    /\ mode = "calibrating"
    /\ isDrawing
    /\ sinceCalibDown < 250
    /\ Len(calibrationLine) = 4
    /\ calibrationLine[3] = FromInt(3)
    /\ calibrationLine[1] = FromInt(0)

-----------------------------------------------------------------------------
(* The calibration line.  The run starts where Spec arrives by UploadFile, *)
(* ImageReady and DrawScaleClick.                                          *)

\* pointer positions of the calibration, in screen pixels
CalibPoints == {Pt(0, 0), Pt(3, 4), Pt(6, 8)}

InitCalib ==
    /\ image = TRUE
    /\ selectedFile = TRUE
    /\ decoding = 0
    /\ mode = "calibrating"
    /\ isModalOpen = FALSE
    /\ showManualScale = FALSE
    /\ scale = NULL
    /\ calibrationLine = <<>>
    /\ isDrawing = FALSE
    /\ sinceCalibClick = CALIB_DEBOUNCE_MS
    /\ sinceCalibDown = CALIB_DEBOUNCE_MS
    /\ plotPoints = <<>>
    /\ results = NULL
    /\ isPlotFinished = FALSE
    /\ reportImage = NULL
    /\ snapHint = FALSE
    /\ captureTimers = 0
    /\ stagePos = Pt(0, 0)
    /\ stageScale = FromInt(1)
    /\ touches = <<>>
    /\ isPinching = FALSE
    /\ isPinchingRef = FALSE
    /\ lastPinchDistRef = Zero
    /\ pinchStartRef = [distance |-> Zero, scale |-> FromInt(1),
                        stagePos |-> Pt(0, 0), centerClient |-> Pt(0, 0)]
    /\ pinchRafRef = NULL
    /\ blockTapRef = FALSE
    /\ pinchLastStartRef = -1
    /\ touchSessionRef = [active |-> FALSE, single |-> TRUE, moved |-> FALSE,
                          startClient |-> Pt(0, 0)]
    /\ sinceTouchStart = TOUCH_CLOCK_CAP_MS
    /\ pinchStarts = 0
    /\ tapForwarded = FALSE
    /\ fingerSession = "none"
    /\ wheelAccumRef = 0
    /\ wheelRafRef = NULL

NextCalib ==
    \/ \E p \in CalibPoints : StageMouseDown(p)
    \/ \E p \in CalibPoints : StageMouseMove(p)
    \/ RedrawClick
    \/ ConfirmClick
    \/ CancelClick
    \/ DrawScaleClick
    \/ \E k \in 1..Len(NumberTexts) : ModalSubmit(NumberTexts[k])
    \/ ModalClose
    \/ ChangeClick
    \/ \E d \in TickSteps : Tick(d)

SpecCalib == InitCalib /\ [][NextCalib]_vars

\* C28: with the second endpoint committed and the live tracking off, a
\* pointer-down or a pointer move on the canvas leaves the calibration line
\* unchanged.
C28_CommittedLineKept ==
    [][\A p \in CalibPoints :
          (mode = "calibrating" /\ Len(calibrationLine) = 4 /\ ~isDrawing
              /\ (StageMouseDown(p) \/ StageMouseMove(p)))
             => UNCHANGED calibrationLine]_vars

\* C29: the end of a vertex drag on a finished polygon puts at the dragged
\* index vertex 0's coordinates when the index is not 0 and the drop lies
\* within distance 5 of vertex 0, and the drop position otherwise; it keeps
\* the number of vertices, every other vertex and the finished flag.
C29_WithinFive(first, pos) ==
    LET dx == Sub(pos.x, first.x)
        dy == Sub(pos.y, first.y)
    IN  Le(Add(Mul(dx, dx), Mul(dy, dy)), FromInt(25))

C29_Dropped(index, pos) ==
    IF index # 0 /\ C29_WithinFive(plotPoints[1], pos)
    THEN plotPoints[1]
    ELSE pos

C29_DragReplacesOneVertex ==
    [][\A index \in 0..(MaxPts - 1), pos \in DragDropPoints :
          PointDragEnd(index, pos)
             => /\ isPlotFinished'
                /\ Len(plotPoints') = Len(plotPoints)
                /\ plotPoints'[index + 1] = C29_Dropped(index, pos)
                /\ \A j \in 1..Len(plotPoints) :
                      j # index + 1 => plotPoints'[j] = plotPoints[j]]_vars

\* the third vertex of the triangle was dropped within 5 of vertex 0 and
\* lies on it
C29_Witness ==
    /\ isPlotFinished
    /\ plotPoints = <<Pt(0, 0), Pt(12, 0), Pt(0, 0)>>
    /\ stagePos = Pt(3, 4)

-----------------------------------------------------------------------------
(* Drawing a polygon.  The run starts where Spec arrives by UploadFile,    *)
(* ImageReady, ManualToggle, ManualSubmit of "2.5" and DrawPlotClick.      *)

\* pointer positions of the clicks, in screen pixels: (3,4) lies within the
\* snap distance of both others, which are 10 apart
DrawClickPoints == {Pt(0, 0), Pt(3, 4), Pt(6, 8)}

InitDraw ==
    /\ image = TRUE
    /\ selectedFile = TRUE
    /\ decoding = 0
    /\ mode = "drawing_plot"
    /\ isModalOpen = FALSE
    /\ showManualScale = FALSE
    /\ scale = Rat(5, 2)
    /\ calibrationLine = <<>>
    /\ isDrawing = FALSE
    /\ sinceCalibClick = CALIB_DEBOUNCE_MS
    /\ sinceCalibDown = CALIB_DEBOUNCE_MS
    /\ plotPoints = <<>>
    /\ results = NULL
    /\ isPlotFinished = FALSE
    /\ reportImage = NULL
    /\ snapHint = FALSE
    /\ captureTimers = 0
    /\ stagePos = Pt(0, 0)
    /\ stageScale = FromInt(1)
    /\ touches = <<>>
    /\ isPinching = FALSE
    /\ isPinchingRef = FALSE
    /\ lastPinchDistRef = Zero
    /\ pinchStartRef = [distance |-> Zero, scale |-> FromInt(1),
                        stagePos |-> Pt(0, 0), centerClient |-> Pt(0, 0)]
    /\ pinchRafRef = NULL
    /\ blockTapRef = FALSE
    /\ pinchLastStartRef = -1
    /\ touchSessionRef = [active |-> FALSE, single |-> TRUE, moved |-> FALSE,
                          startClient |-> Pt(0, 0)]
    /\ sinceTouchStart = TOUCH_CLOCK_CAP_MS
    /\ pinchStarts = 0
    /\ tapForwarded = FALSE
    /\ fingerSession = "none"
    /\ wheelAccumRef = 0
    /\ wheelRafRef = NULL

NextDraw ==
    \/ \E p \in DrawClickPoints : StageMouseDown(p)
    \/ \E p \in DrawClickPoints : StageMouseMove(p)
    \/ UndoClick
    \/ ClearClick
    \/ FinishClick
    \/ CaptureFire
    \/ DrawPlotClick

SpecDraw == InitDraw /\ [][NextDraw]_vars

\* C30: only Finish turns the finished flag on, and a pointer-down that
\* appends a vertex, snapped onto vertex 0 or not, leaves the polygon
\* unfinished and without results.
C30_Appended(p) ==
    /\ mode = "drawing_plot"
    /\ StageMouseDown(p)
    /\ Len(plotPoints') = Len(plotPoints) + 1

C30_OnlyFinishFinishes ==
    [][/\ (~isPlotFinished /\ isPlotFinished') => FinishClick
       /\ \A p \in DrawClickPoints :
             C30_Appended(p) => (~isPlotFinished' /\ results' = NULL)]_vars

\* three vertices are placed, the last one on vertex 0, and the polygon is
\* not finished
C30_Witness ==
    /\ mode = "drawing_plot"
    /\ plotPoints = <<Pt(0, 0), Pt(6, 8), Pt(0, 0)>>
    /\ ~isPlotFinished
    /\ results = NULL

\* C31: every applied pinch update computes the zoom as
\* clamp(startZoom * currentDistance / startDistance, 0.1, 10) from the
\* snapshot taken when the second finger landed, and the pan from that
\* snapshot's pan and zoom around the midpoint of the move that scheduled
\* it, never from the zoom or pan earlier updates produced; with a start
\* distance of 0 the zoom and the pan stay as they are.

\* the second finger lands: the snapshot holds the distance of the two
\* fingers and the zoom and pan of that moment
C31_SnapshotAtStart ==
    (~isPinchingRef /\ isPinchingRef') =>
        /\ Len(touches') = 2
        /\ pinchStartRef'.distance = getDistance(touches'[1], touches'[2])
        /\ pinchStartRef'.scale = stageScale
        /\ pinchStartRef'.stagePos = stagePos

\* while the pinch lasts the snapshot stays as taken, whatever the updates
\* do to the zoom and the pan
C31_SnapshotKept ==
    (isPinchingRef /\ isPinchingRef') => pinchStartRef' = pinchStartRef

\* a move that schedules an update hands it the snapshot, the distance and
\* the midpoint of the two fingers after the move
C31_UpdateScheduled ==
    (pinchRafRef = NULL /\ pinchRafRef' # NULL) =>
        /\ isPinchingRef
        /\ Len(touches') = 2
        /\ pinchRafRef'[1].start = pinchStartRef
        /\ pinchRafRef'[1].newDist = getDistance(touches'[1], touches'[2])
        /\ pinchRafRef'[1].centerClient = getMidpoint(touches'[1], touches'[2])

\* the zoom and the pan an update must produce from its snapshot
C31_UpdateApplied ==
    PinchFrame =>
        LET start == pinchRafRef[1].start
            currentDistance == pinchRafRef[1].newDist
            midpoint == toLocalPointer(pinchRafRef[1].centerClient)
            newZoom == clamp(Div(Mul(start.scale, currentDistance), start.distance),
                             Rat(1, 10), FromInt(10))
            worldX == Div(Sub(midpoint.x, start.stagePos.x), start.scale)
            worldY == Div(Sub(midpoint.y, start.stagePos.y), start.scale)
        IN  IF start.distance = Zero
            THEN stageScale' = stageScale /\ stagePos' = stagePos
            ELSE /\ stageScale' = newZoom
                 /\ stagePos' = [x |-> Sub(midpoint.x, Mul(worldX, newZoom)),
                                 y |-> Sub(midpoint.y, Mul(worldY, newZoom))]

C31_PinchFromSnapshot ==
    /\ [][C31_SnapshotAtStart]_vars
    /\ [][C31_SnapshotKept]_vars
    /\ [][C31_UpdateScheduled]_vars
    /\ [][C31_UpdateApplied]_vars

\* a pinch that started at zoom 10 with the fingers 50 apart has had an
\* update applied for the distance 1: the zoom is 10 * 1 / 50
C31_Witness ==
    /\ isPinchingRef
    /\ pinchStartRef.scale = FromInt(10)
    /\ pinchStartRef.distance = FromInt(50)
    /\ lastPinchDistRef = FromInt(1)
    /\ stageScale = Rat(1, 5)

(* The wheel alone.  The run starts as SpecView does, and the pointer is   *)
(* at one of two places when the wheel turns.                              *)

\* pointer positions of wheel events
WheelEventPoints == {Pt(0, 0), Pt(3, 4)}

\* the most the pan offset is away from the origin when the wheel turns
MaxPan == 40

\* handleWheel, lines 425-449, while the pan offset is within MaxPan
WheelNearby(deltaY, pointer) ==
    /\ Le(Abs(stagePos.x), FromInt(MaxPan))
    /\ Le(Abs(stagePos.y), FromInt(MaxPan))
    /\ Wheel(deltaY, pointer)

NextWheel ==
    \/ \E deltaY \in WheelDeltas, pointer \in WheelEventPoints :
          WheelNearby(deltaY, pointer)
    \/ WheelFrame
    \/ ImageReady
    \/ \E pos \in DragPanPoints : StageDragEnd(pos)

SpecWheel == InitView /\ [][NextWheel]_vars

\* C32: wheel events are accumulated and flushed once per frame: at most
\* one frame callback is pending, the callback applies one factor on the
\* sum of the deltas received since the last flush, the accumulator is zero
\* after the flush, and the flush moves the pan so that the world point
\* under the pointer stays where it is on the screen.

\* a wheel event adds its delta and schedules a callback only when none is
\* pending
C32_Accumulated ==
    \A deltaY \in WheelDeltas, pointer \in WheelEventPoints :
        Wheel(deltaY, pointer) =>
            /\ wheelAccumRef' = wheelAccumRef + deltaY
            /\ wheelRafRef' # NULL
            /\ wheelRafRef # NULL => wheelRafRef' = wheelRafRef

\* the flush applies one factor on the sum and empties the accumulator
C32_FlushedOnce ==
    WheelFrame =>
        /\ stageScale' = clamp(Mul(wheelRafRef[1].oldScale, WheelFactor(wheelAccumRef)),
                               Rat(1, 10), FromInt(10))
        /\ wheelAccumRef' = 0
        /\ wheelRafRef' = NULL

\* the world point that is under the pointer when the flush begins is
\* under the pointer when it ends
C32_PointerAnchored ==
    WheelFrame =>
        LET pointer == wheelRafRef[1].pointer
            worldX == Div(Sub(pointer.x, stagePos.x), stageScale)
            worldY == Div(Sub(pointer.y, stagePos.y), stageScale)
        IN  /\ Add(stagePos'.x, Mul(worldX, stageScale')) = pointer.x
            /\ Add(stagePos'.y, Mul(worldY, stageScale')) = pointer.y

C32_WheelFlushedPerFrame ==
    /\ [](Len(wheelRafRef) <= 1)
    /\ [](wheelRafRef = NULL => wheelAccumRef = 0)
    /\ [][C32_Accumulated]_vars
    /\ [][C32_FlushedOnce]_vars
    /\ [][C32_PointerAnchored]_vars

\* C33: the finished flag and the drawing mode are never on together, so a
\* pointer-down appends no vertex to a finished polygon and neither the
\* Undo nor the Clear button of drawing acts on one.
C33_NotFinishedWhileDrawing == ~(isPlotFinished /\ mode = "drawing_plot")

C33_FinishedNotEdited ==
    isPlotFinished =>
        /\ ~UndoClick
        /\ ~ClearClick
        /\ \A p \in ClickPoints : StageMouseDown(p) => plotPoints' = plotPoints

C33_FinishedOutsideDrawing ==
    /\ [](C33_NotFinishedWhileDrawing)
    /\ [][C33_FinishedNotEdited]_vars

\* a finished polygon, its snapshot taken, with the calibration mode on
C33_Witness ==
    /\ isPlotFinished
    /\ Len(plotPoints) >= 3
    /\ reportImage # NULL
    /\ mode = "calibrating"

=============================================================================
